---- MODULE Spec2Model ----
(***************************************************************************)
(* Point-cloud particle engine of the Homara build pages.                  *)
(*                                                                         *)
(* Two pages are modelled, each a separate single-threaded browser         *)
(* program with its own module-level globals:                              *)
(*   - the tree page  (src/buildpage/tree-version/tree-engine.js)          *)
(*   - the logo page  (src/buildpage/buildpage-engine.js)                  *)
(* A behaviour is one page session; the variable page says which.          *)
(*                                                                         *)
(* Numbers.  JavaScript numbers are modelled as exact rationals <<n, d>>   *)
(* (d > 0, lowest terms).  IEEE rounding of doubles is not modelled.       *)
(* Math.random() is a choice from a small set of representative values of  *)
(* [0, 1).  Time (performance.now()) is an integer number of milliseconds. *)
(***************************************************************************)
EXTENDS Integers, Sequences, FiniteSets, TLC

(***************************************************************************)
(* Rational arithmetic                                                     *)
(***************************************************************************)
Abs(x) == IF x < 0 THEN -x ELSE x

RECURSIVE GCD(_, _)
GCD(a, b) == IF b = 0 THEN a ELSE GCD(b, a % b)

\* the rational n/d in lowest terms with a positive denominator
Rat(n, d) ==
    LET s == IF d < 0 THEN -1 ELSE 1
        g == GCD(Abs(n), Abs(d))
    IN  <<(s * n) \div g, (s * d) \div g>>

Whole(n) == <<n, 1>>
Zero == <<0, 1>>
One == <<1, 1>>

\* sums go through the least common denominator to keep the integers small
RAdd(a, b) ==
    LET g == GCD(a[2], b[2])
    IN  Rat(a[1] * (b[2] \div g) + b[1] * (a[2] \div g), (a[2] \div g) * b[2])
RNeg(a) == <<-a[1], a[2]>>
RSub(a, b) == RAdd(a, RNeg(b))
\* products cancel across the fraction bar first, for the same reason
RMul(a, b) ==
    LET g1 == GCD(Abs(a[1]), b[2])
        g2 == GCD(Abs(b[1]), a[2])
    IN  Rat((a[1] \div g1) * (b[1] \div g2), (a[2] \div g2) * (b[2] \div g1))
RDiv(a, b) == RMul(a, Rat(b[2], b[1]))
RLt(a, b) == a[1] * b[2] < b[1] * a[2]
RLe(a, b) == a[1] * b[2] <= b[1] * a[2]
RMin(a, b) == IF RLe(a, b) THEN a ELSE b
RMax(a, b) == IF RLe(a, b) THEN b ELSE a

\* floor of the square root of a natural number
RECURSIVE ISqrtFrom(_, _)
ISqrtFrom(n, r) == IF (r + 1) * (r + 1) > n THEN r ELSE ISqrtFrom(n, r + 1)
RECURSIVE ISqrt(_)
ISqrt(n) == IF n < 4 THEN ISqrtFrom(n, 0)
            ELSE LET h == 2 * ISqrt(n \div 4) IN ISqrtFrom(n, h)

\* Math.sqrt: exact when the argument is the square of a rational, else
\* rounded down to a multiple of 1/10
RSqrt(a) ==
    LET rn == ISqrt(a[1])
        rd == ISqrt(a[2])
    IN  IF rn * rn = a[1] /\ rd * rd = a[2]
        THEN Rat(rn, rd)
        ELSE Rat(ISqrt((a[1] \div a[2]) * 100 + ((a[1] % a[2]) * 100) \div a[2]),
                 10)

\* Math.floor of a rational
Floor(a) == a[1] \div a[2]

(***************************************************************************)
(* Configuration and environment                                           *)
(***************************************************************************)
\* tree-engine.js CONFIG.tree
CONFIG ==
    [tree |->
       [size                  |-> 1024,
        displayScale          |-> Rat(576, 1000),
        depthRange            |-> Whole(25),
        flowSpeed             |-> Rat(12, 100),
        flowHeight            |-> Whole(8),
        flowTurbulence        |-> Rat(4, 100),
        slashWidth            |-> Whole(60),
        slashStrength         |-> Whole(20),
        slashSmoothness       |-> Rat(15, 100),
        windReturnSpeed       |-> Rat(12, 100),
        samplingDensity       |-> 1,
        saplingParticleRatio  |-> Rat(5, 10),
        saplingHeightRange    |-> <<Zero, Rat(45, 100)>>,
        saplingTaperExtension |-> Whole(150),
        saplingTaperStart     |-> Rat(7, 10),
        growthDuration        |-> 10],
     logo |->
       [size              |-> 500,
        depthRange        |-> Whole(80),
        floatSpeed        |-> Rat(1, 1000),
        floatAmount       |-> Whole(5),
        swayAmount        |-> Whole(4),
        mouseWindRadius   |-> Whole(80),
        mouseWindStrength |-> Whole(25),
        windReturnSpeed   |-> Rat(8, 100),
        samplingDensity   |-> 1]]

\* the browser window (environment): window.innerWidth, window.innerHeight
window == [innerWidth |-> 1024, innerHeight |-> 768]

\* the value of a variable that holds no object
NULL == "null"
\* the value of a time that is not set
NoTime == 0 - 1

(***************************************************************************)
(* Bounds of the model                                                     *)
(***************************************************************************)
\* the clock advances in steps of TickMs milliseconds, MaxTicks times
TickMs == 5000
MaxTicks == 2
\* animation frames (display refreshes) per session
MaxFrames == 2

(***************************************************************************)
(* Representative inputs                                                   *)
(***************************************************************************)
\* Pixels of the off-screen canvas after the image was drawn on it, listed in
\* raster order; every pixel that is not listed is background white.
Pixel(x, y, r, g, b, alpha) ==
    [x |-> x, y |-> y, r |-> r, g |-> g, b |-> b, alpha |-> alpha]

\* a tree that fills the canvas: a trunk in column 512 from the crown down to
\* the last rows, with one grey pixel too light to be sampled
TreeImage ==
    << Pixel(512, 62, 0, 0, 0, 255),
       Pixel(512, 300, 200, 200, 200, 255),
       Pixel(512, 512, 0, 0, 0, 255),
       Pixel(512, 662, 30, 30, 30, 255),
       Pixel(512, 1022, 0, 0, 0, 255) >>
\* an image with no dark pixel
BlankImage == << Pixel(512, 512, 250, 250, 250, 255) >>

Images == {TreeImage, BlankImage}

\* values of Math.random() at each call site
RandZ == {Rat(1, 2)}
RandTaper == {Rat(1, 4)}
RandFlow == {Rat(79, 80)}
RandDriftInit == {Rat(1, 4)}
RandDrift == {Rat(3, 4)}
RandPhase == {Rat(1, 4)}
RandSpeed == {Rat(1, 2)}

\* pointer positions (clientX, clientY) of mousemove events
MousePoints == { <<512, 384>> }

(***************************************************************************)
(* Tree page: createPointCloud                                             *)
(***************************************************************************)
brightness(px) == Rat(px.r + px.g + px.b, 3)

\* A faulty variant of isTreePixel, kept to show that SamplerThreshold
\* depends on it: both comparisons let the threshold value itself pass.
isTreePixelInclusive(px) ==
    px.alpha >= 128 /\ RLe(brightness(px), Whole(128))

\* the test of line 515
isTreePixel(px) == px.alpha > 128 /\ RLt(brightness(px), Whole(128))

\* A faulty variant of depthMultiplier, kept to show that SeedDepth depends
\* on it: every height keeps the full depth.
fullDepth(normalizedY) == One

depthMultiplier(normalizedY) ==
    IF RLt(Rat(5, 10), normalizedY) THEN Rat(12, 100)
    ELSE IF RLt(Rat(3, 10), normalizedY) THEN Rat(18, 100)
    ELSE IF RLt(Rat(15, 100), normalizedY) THEN Rat(4, 10)
    ELSE One

\* Faulty variants of samplePixel, kept to show that SeedCoordinates and
\* SamplingDeterminism depend on it: a seed whose vertical axis is not
\* flipped, and a seed whose planar position takes part of the random draw.
samplePixelUnflipped(px, rz) ==
    [x |-> Rat(2 * px.x - CONFIG.tree.size, 2),
     y |-> Rat(2 * px.y - CONFIG.tree.size, 2),
     z |-> Zero]
samplePixelJittered(px, rz) ==
    [x |-> RAdd(Rat(2 * px.x - CONFIG.tree.size, 2), rz),
     y |-> RNeg(Rat(2 * px.y - CONFIG.tree.size, 2)),
     z |-> Zero]

\* the seed of one sampled pixel; rz is the value of Math.random()
samplePixel(px, rz) ==
    LET posX == Rat(2 * px.x - CONFIG.tree.size, 2)
        posY == RNeg(Rat(2 * px.y - CONFIG.tree.size, 2))
        normalizedY == RDiv(RAdd(posY, Whole(512)), Whole(1024))
        posZ == RMul(RMul(RSub(rz, Rat(1, 2)), CONFIG.tree.depthRange),
                     depthMultiplier(normalizedY))
    IN  [x |-> posX, y |-> posY, z |-> posZ]

\* the pixels the sampling loop keeps, in raster order
sampledPixels(imageData) == SelectSeq(imageData, isTreePixel)

\* positions after the sampling loop; rz[k] is the draw of the k-th seed
samplePositions(imageData, rz) ==
    LET kept == sampledPixels(imageData)
    IN  [k \in 1..Len(kept) |-> samplePixel(kept[k], rz[k])]

RECURSIVE SeqMinY(_, _)
SeqMinY(positions, k) ==
    IF k = 1 THEN positions[1].y
    ELSE RMin(positions[k].y, SeqMinY(positions, k - 1))
RECURSIVE SeqMaxY(_, _)
SeqMaxY(positions, k) ==
    IF k = 1 THEN positions[1].y
    ELSE RMax(positions[k].y, SeqMaxY(positions, k - 1))

\* Math.min(...positions.map(p => p.y)) and Math.max(...)
minY(positions) == SeqMinY(positions, Len(positions))
maxY(positions) == SeqMaxY(positions, Len(positions))
treeHeight(positions) == RSub(maxY(positions), minY(positions))

\* Outcomes of extendRoots(positions): no root particle, or one root particle
\* on the axis 40 px below the lowest seed (createRootBranch walks downward
\* from a seed of the root base, about 2 to 3 px per segment).
RootOutcomes(positions) ==
    { <<>>,
      << [x |-> Zero, y |-> RSub(minY(positions), Whole(40)), z |-> Zero] >> }
\* outcomes of extendBranches(positions)
BranchOutcomes(positions) == { <<>> }

saplingMaxY(positions) ==
    RAdd(minY(positions),
         RMul(treeHeight(positions), CONFIG.tree.saplingHeightRange[2]))

\* indices of the seeds in the sapling height range
saplingCandidates(positions) ==
    { i \in 1..Len(positions) : RLe(positions[i].y, saplingMaxY(positions)) }

\* A faulty variant of saplingParticleCount, kept to show that
\* SaplingSelection depends on it: the product is rounded to the nearest
\* whole number.
saplingCountRounded(positions) ==
    Floor(RAdd(RMul(Whole(Cardinality(saplingCandidates(positions))),
                    CONFIG.tree.saplingParticleRatio),
               Rat(1, 2)))

\* line 586
saplingParticleCount(positions) ==
    Floor(RMul(Whole(Cardinality(saplingCandidates(positions))),
               CONFIG.tree.saplingParticleRatio))

\* the possible values of saplingParticleSet: the first saplingParticleCount
\* elements of a shuffle of the candidates
SaplingSets(positions) ==
    { S \in SUBSET saplingCandidates(positions) :
        Cardinality(S) = saplingParticleCount(positions) }

taperStartY(positions) ==
    RAdd(minY(positions),
         RMul(RMul(treeHeight(positions), CONFIG.tree.saplingHeightRange[2]),
              CONFIG.tree.saplingTaperStart))

topEdgeParticles(positions, saplingParticleSet) ==
    { i \in saplingParticleSet : RLe(taperStartY(positions), positions[i].y) }

\* particleExtensions.get(pos) for a top edge particle; rt is Math.random()
particleExtension(positions, i, rt) ==
    LET taperProgress ==
            RDiv(RSub(positions[i].y, taperStartY(positions)),
                 RSub(saplingMaxY(positions), taperStartY(positions)))
        maxExtension == RMul(CONFIG.tree.saplingTaperExtension, taperProgress)
    IN  RMul(rt, maxExtension)

growthOrderOf(pos) ==
    LET normalizedY == RDiv(RAdd(pos.y, Whole(512)), Whole(1024))
        distanceFromCenter == RSqrt(RAdd(RMul(pos.x, pos.x), RMul(pos.z, pos.z)))
        normalizedDistance == RMin(RDiv(distanceFromCenter, Whole(512)), One)
    IN  RAdd(RMul(normalizedY, Rat(6, 10)), RMul(normalizedDistance, Rat(4, 10)))

\* one element of particles = positions.map(...), lines 609-659.  rnd holds
\* the draws of Math.random(); phases are kept as fractions of a full turn.
makeParticle(positions, i, saplingParticleSet, rnd) ==
    LET pos == positions[i]
        finalX == RMul(pos.x, CONFIG.tree.displayScale)
        baseY == RMul(pos.y, CONFIG.tree.displayScale)
        finalZ == RMul(pos.z, CONFIG.tree.displayScale)
        isSaplingParticle == i \in saplingParticleSet
        finalY == IF i \in topEdgeParticles(positions, saplingParticleSet)
                  THEN RAdd(baseY,
                            RMul(particleExtension(positions, i, rnd.taper[i]),
                                 CONFIG.tree.displayScale))
                  ELSE baseY
    IN  [originalX |-> finalX,
         originalY |-> finalY,
         originalZ |-> finalZ,
         isSaplingParticle |-> isSaplingParticle,
         growthOrder |-> growthOrderOf(pos),
         currentOpacity |-> IF isSaplingParticle THEN One ELSE Zero,
         targetOpacity |-> One,
         phaseY |-> rnd.phaseY[i],
         phaseX |-> rnd.phaseX[i],
         speedMultiplier |-> RAdd(Rat(8, 10), RMul(rnd.speed[i], Rat(4, 10))),
         windOffsetX |-> Zero,
         windOffsetY |-> Zero,
         flowOffset |-> RMul(rnd.flow[i], CONFIG.tree.flowHeight),
         driftX |-> RMul(RSub(rnd.driftX[i], Rat(1, 2)), CONFIG.tree.flowTurbulence),
         driftZ |-> RMul(RSub(rnd.driftZ[i], Rat(1, 2)), CONFIG.tree.flowTurbulence)]

\* the Float32Array position buffer built from the particles, lines 663-670
buildPositionsArray(parts) ==
    [k \in 1..(3 * Len(parts)) |->
        LET particle == parts[(k + 2) \div 3]
        IN  CASE k % 3 = 1 -> particle.originalX
              [] k % 3 = 2 -> particle.originalY
              [] OTHER     -> particle.originalZ]

\* the Float32Array opacity buffer built from the particles, lines 664-673
buildOpacityArray(parts) == [i \in 1..Len(parts) |-> parts[i].currentOpacity]

\* the draws createPointCloud makes while it builds n particles
ParticleDraws(positions, saplingParticleSet) ==
    LET n == 1..Len(positions)
    IN  [taper  : [topEdgeParticles(positions, saplingParticleSet) -> RandTaper],
         phaseY : [n -> RandPhase],
         phaseX : [n -> RandPhase],
         speed  : [n -> RandSpeed],
         flow   : [n -> RandFlow],
         driftX : [n -> RandDriftInit],
         driftZ : [n -> RandDriftInit]]

(***************************************************************************)
(* State                                                                   *)
(***************************************************************************)
VARIABLES
    page,                    \* "tree" or "logo": the page of this session
    phase,                   \* init(): "loading" at the await, then "running" or "failed"
    now,                     \* performance.now(), in ms
    ticks,                   \* clock steps taken
    frames,                  \* display refreshes that ran callbacks
    mouseX, mouseY, prevMouseX, prevMouseY, mouseVelocityX, mouseVelocityY,
    particleSystem,          \* NULL or "Points"
    particles,               \* the particle records
    positionsArray,          \* geometry.attributes.position.array
    opacityArray,            \* geometry.attributes.opacity.array
    isGrown, flowAnimationEnabled, saplingAnimationEnabled,
    startTime,               \* growTree's startTime, NoTime before the trigger
    rafQueue,                \* callbacks given to requestAnimationFrame, in order
    saplingFlowInitialized, flowInitialized,
    triggerBox,              \* "shown", "hidden" (class added) or "removed"
    removeDue,               \* due time of the setTimeout of line 137, or NoTime
    animationTime,           \* logo page: animationTime, in units of floatSpeed
    showPointCloud,
    taskLog,                 \* the last task (handler or frame) and the functions
                             \* it ran, in order; empty after time has passed
    canvasData,              \* the pixels getImageData read, <<>> before
    seedList,                \* createPointCloud's positions array as it last left it
    sampleRuns,              \* the seeds of each run of the sampling loop taken alone
    rootRun,                 \* a run of extendRoots taken alone: its pending calls
                             \* of createRootBranch and the length of newParticles
    branchRun,               \* a run of extendBranches taken alone: the tips still
                             \* to extend, the loop index and the length of
                             \* newParticles
    preload                  \* the home page: preloadInProgress, preloadComplete,
                             \* the place startPreloading has reached, the worker
                             \* and the messages and promises in flight

vars == <<page, phase, now, ticks, frames, mouseX, mouseY, prevMouseX, prevMouseY,
          mouseVelocityX, mouseVelocityY, particleSystem, particles,
          positionsArray, opacityArray, isGrown, flowAnimationEnabled,
          saplingAnimationEnabled, startTime, rafQueue, saplingFlowInitialized,
          flowInitialized, triggerBox, removeDue, animationTime, showPointCloud,
          taskLog, canvasData, seedList, sampleRuns, rootRun, branchRun,
          preload>>

mouseVars == <<mouseX, mouseY, prevMouseX, prevMouseY, mouseVelocityX, mouseVelocityY>>
growthFlags == <<isGrown, flowAnimationEnabled, saplingAnimationEnabled, startTime>>
boxVars == <<triggerBox, removeDue>>
clockVars == <<now, ticks>>
\* the variables of the functions that are run on their own
unitVars == <<sampleRuns, rootRun, branchRun, preload>>
\* the variables of the two pages
pageVars == <<page, phase, clockVars, frames, mouseVars, particleSystem, particles,
              positionsArray, opacityArray, growthFlags, rafQueue,
              saplingFlowInitialized, flowInitialized, boxVars, animationTime,
              showPointCloud, taskLog, canvasData, seedList>>

\* The part of the state a frame callback works on, passed from one callback
\* of a task to the next.
Store ==
    [particleSystem |-> particleSystem,
     particles |-> particles,
     positionsArray |-> positionsArray,
     opacityArray |-> opacityArray,
     rafQueue |-> rafQueue,
     saplingFlowInitialized |-> saplingFlowInitialized,
     flowInitialized |-> flowInitialized,
     taskLog |-> taskLog,
     seedList |-> seedList]

\* the store at the start of the task name
Task(name) == [Store EXCEPT !.taskLog = <<name>>]

SetStore(st) ==
    /\ particleSystem' = st.particleSystem
    /\ particles' = st.particles
    /\ positionsArray' = st.positionsArray
    /\ opacityArray' = st.opacityArray
    /\ rafQueue' = st.rafQueue
    /\ saplingFlowInitialized' = st.saplingFlowInitialized
    /\ flowInitialized' = st.flowInitialized
    /\ taskLog' = st.taskLog
    /\ seedList' = st.seedList

(***************************************************************************)
(* Tree page: per-frame motion                                             *)
(***************************************************************************)
mouseWorldX == RSub(Whole(mouseX), Rat(window.innerWidth, 2))
mouseWorldY == RNeg(RSub(Whole(mouseY), Rat(window.innerHeight, 2)))

RSquare(a) == RMul(a, a)

\* flowOffset after "Move upward", before the respawn test
risenFlowOffset(particle) == RAdd(particle.flowOffset, CONFIG.tree.flowSpeed)
\* A faulty variant of respawns, kept to show that FlowWraps depends on it:
\* the particle is never sent back to the bottom.
respawnsNever(particle) == FALSE
respawns(particle) == RLe(CONFIG.tree.flowHeight, risenFlowOffset(particle))

\* lines 927-929 (840-842)
distanceToMouse(particle) ==
    RSqrt(RAdd(RSquare(RSub(particle.originalX, mouseWorldX)),
               RSquare(RSub(particle.originalY, mouseWorldY))))

\* line 934 (847)
velocityMag ==
    RSqrt(Whole(mouseVelocityX * mouseVelocityX + mouseVelocityY * mouseVelocityY))

\* A faulty variant of slash, kept to show that BoundedForceOffset depends
\* on it: the velocity is not divided by its magnitude.
slashUnscaled(offset, velocity, dist, mag) ==
    RAdd(offset,
         RMul(RSub(RMul(Whole(velocity),
                        RMul(RSub(One, RDiv(dist, CONFIG.tree.slashWidth)),
                             CONFIG.tree.slashStrength)),
                   offset),
              CONFIG.tree.slashSmoothness))

\* lines 942-949 (855-862) along one axis: the offset moves towards the push
slash(offset, velocity, dist, mag) ==
    RAdd(offset,
         RMul(RSub(RMul(RDiv(Whole(velocity), mag),
                        RMul(RSub(One, RDiv(dist, CONFIG.tree.slashWidth)),
                             CONFIG.tree.slashStrength)),
                   offset),
              CONFIG.tree.slashSmoothness))

\* A faulty variant of relax, kept to show that ForceRelaxation depends on
\* it: the step has the wrong sign and the offset moves away from 0.
relaxAway(offset) ==
    RAdd(offset, RMul(RSub(offset, Zero), CONFIG.tree.windReturnSpeed))

\* A faulty variant of relax, kept to show that RestingPointerNoForce
\* depends on it: the offset returns towards 1 instead of 0.
relaxToOne(offset) ==
    RAdd(offset, RMul(RSub(One, offset), CONFIG.tree.windReturnSpeed))

\* lines 952-953, 957-958 along one axis: the offset returns towards 0
relax(offset) ==
    RAdd(offset, RMul(RSub(Zero, offset), CONFIG.tree.windReturnSpeed))

\* lines 932-959 (845-872) along one axis
windOffset(offset, velocity, dist, mag) ==
    IF RLt(dist, CONFIG.tree.slashWidth) /\ RLt(Rat(1, 2), mag)
    THEN slash(offset, velocity, dist, mag)
    ELSE relax(offset)

\* the drift a respawn draws, lines 922-923 (835-836)
newDrift(r) == RMul(RSub(r, Rat(1, 2)), CONFIG.tree.flowTurbulence)

\* A faulty variant of moveParticle, kept to show that BaselineWriteOnce
\* depends on it: the rise of the flow is added to the baseline itself.
moveBaseline(particle, rdx, rdz) ==
    [particle EXCEPT
        !.flowOffset = IF respawns(particle) THEN Zero ELSE risenFlowOffset(particle),
        !.originalY = RAdd(@, CONFIG.tree.flowSpeed)]

\* The body of the forEach of updateFullTreeFlow (lines 915-959), which is
\* the same text as lines 828-872 of updateSaplingAnimation's loop: upward
\* flow, then the slash force.  rdx, rdz are the draws of a respawn.
moveParticle(particle, rdx, rdz) ==
    [particle EXCEPT
        !.flowOffset = IF respawns(particle) THEN Zero ELSE risenFlowOffset(particle),
        !.driftX = IF respawns(particle) THEN newDrift(rdx) ELSE @,
        !.driftZ = IF respawns(particle) THEN newDrift(rdz) ELSE @,
        !.windOffsetX = windOffset(@, mouseVelocityX, distanceToMouse(particle),
                                   velocityMag),
        !.windOffsetY = windOffset(@, mouseVelocityY, distanceToMouse(particle),
                                   velocityMag)]

\* A faulty variant of writePosition, kept to show that PositionComposition
\* depends on it: the buffer entry is the baseline alone.
writeBaseline(particle, k) ==
    CASE k % 3 = 1 -> particle.originalX
      [] k % 3 = 2 -> particle.originalY
      [] OTHER     -> particle.originalZ

\* the value written to positions[k - 1] for a moved particle (lines 962-964)
writePosition(particle, k) ==
    CASE k % 3 = 1 -> RAdd(RAdd(particle.originalX, particle.driftX),
                           particle.windOffsetX)
      [] k % 3 = 2 -> RAdd(RAdd(particle.originalY, particle.flowOffset),
                           particle.windOffsetY)
      [] OTHER     -> RAdd(particle.originalZ, particle.driftZ)

\* A faulty variant of writePositions, kept to show that BufferShape depends
\* on it: a pass that pushes the new coordinates instead of writing in place.
pushPositions(positions, parts, moved) ==
    positions \o [k \in 1..(3 * Cardinality(moved)) |-> Zero]

\* the position buffer after a forEach pass that moved the particles in moved
writePositions(positions, parts, moved) ==
    [k \in 1..Len(positions) |->
        IF ((k + 2) \div 3) \in moved
        THEN writePosition(parts[(k + 2) \div 3], k)
        ELSE positions[k]]

\* the particles after a forEach pass that moves those in moved
moveParticles(parts, moved, rnd) ==
    [i \in 1..Len(parts) |->
        IF i \in moved
        THEN moveParticle(parts[i], rnd.driftX[i], rnd.driftZ[i])
        ELSE parts[i]]

storePositions(st, moved) ==
    [st EXCEPT !.positionsArray = writePositions(@, st.particles, moved)]

\* one motion pass over the particles in moved; rnd gives the respawn draws
motionPass(st, moved, rnd) ==
    storePositions([st EXCEPT !.particles = moveParticles(@, moved, rnd)], moved)

\* A faulty variant of saplingIndices, kept to show that SaplingFrameEffect
\* depends on it: the test of line 827 lets every particle through.
allIndices(parts) == 1..Len(parts)

\* the particles that pass the test of line 827
saplingIndices(parts) == { i \in 1..Len(parts) : parts[i].isSaplingParticle }

\* updateSaplingAnimation, lines 795-882
updateSaplingAnimation(st, rnd) ==
    IF st.particleSystem = NULL \/ Len(st.particles) = 0 THEN st
    ELSE IF ~saplingAnimationEnabled THEN st
    ELSE [motionPass([st EXCEPT !.saplingFlowInitialized = TRUE],
                     saplingIndices(st.particles), rnd)
            EXCEPT !.taskLog = Append(@, "updateSaplingAnimation")]

\* updateFullTreeFlow, lines 885-968
updateFullTreeFlow(st, rnd) ==
    IF st.particleSystem = NULL \/ Len(st.particles) = 0 THEN st
    ELSE IF ~flowAnimationEnabled THEN st
    ELSE [motionPass([st EXCEPT !.flowInitialized = TRUE],
                     1..Len(st.particles), rnd)
            EXCEPT !.taskLog = Append(@, "updateFullTreeFlow")]

\* the particles the next animate() call moves
MovedNext(parts) ==
    IF saplingAnimationEnabled THEN saplingIndices(parts)
    ELSE IF flowAnimationEnabled THEN 1..Len(parts) ELSE {}

\* "Run appropriate animation based on state", lines 970-975
runUpdate(st, rnd) ==
    IF saplingAnimationEnabled THEN updateSaplingAnimation(st, rnd)
    ELSE IF flowAnimationEnabled THEN updateFullTreeFlow(st, rnd)
    ELSE st

\* A faulty variant of animate, kept to show that FrameOrder depends on it:
\* the scene is rendered before the update runs.
animateRenderFirst(st, rnd) ==
    runUpdate([st EXCEPT !.rafQueue = Append(@, "animate"),
                         !.taskLog = Append(@, "render")], rnd)

\* animate, lines 791-981: schedule the next frame, run the update the flags
\* select, render
animate(st, rnd) ==
    [runUpdate([st EXCEPT !.rafQueue = Append(@, "animate")], rnd)
        EXCEPT !.taskLog = Append(@, "render")]

(***************************************************************************)
(* Tree page: growth                                                       *)
(***************************************************************************)
fadeRange == Rat(25, 100)

\* growTree's duration, in ms
duration == CONFIG.tree.growthDuration * 1000

\* line 735
growthProgress(elapsed) == RMin(Rat(elapsed, duration), One)

\* Faulty variants of fadeIn, kept to show that GrowthMonotonic and
\* GrowthFrameOpacity depend on it: a fade that runs the wrong way, and a fade
\* without the linear zone.
fadeOut(distanceFromWave) ==
    IF RLt(distanceFromWave, Zero) THEN One
    ELSE IF RLt(distanceFromWave, fadeRange)
         THEN RSub(One, RDiv(distanceFromWave, fadeRange))
         ELSE Zero
fadeStep(distanceFromWave) ==
    IF RLt(distanceFromWave, Zero) THEN Zero ELSE One

\* lines 756-765
fadeIn(distanceFromWave) ==
    IF RLt(distanceFromWave, Zero) THEN Zero
    ELSE IF RLt(distanceFromWave, fadeRange)
         THEN RDiv(distanceFromWave, fadeRange)
         ELSE One

\* A faulty variant of growthOpacity, kept to show that SaplingOpaque depends
\* on it: sapling particles take part in the wave like the others.
waveOpacity(particle, progress) ==
    fadeIn(RSub(RMul(progress, RAdd(One, fadeRange)), particle.growthOrder))

\* the opacity animateGrowth computes for a particle, lines 742-766
growthOpacity(particle, progress) ==
    IF particle.isSaplingParticle THEN One
    ELSE fadeIn(RSub(RMul(progress, RAdd(One, fadeRange)), particle.growthOrder))

\* A faulty variant of writeOpacities, kept to show that
\* FrameRateIndependence depends on it: every growth step adds a fixed amount
\* to the opacity, whatever the time.
writeOpacitiesStepwise(st, progress) ==
    [st EXCEPT
        !.particles = [i \in 1..Len(st.particles) |->
                          [st.particles[i] EXCEPT
                              !.currentOpacity = RMin(One, RAdd(@, Rat(1, 10)))]],
        !.opacityArray = [i \in 1..Len(st.particles) |->
                             RMin(One, RAdd(st.particles[i].currentOpacity,
                                            Rat(1, 10)))],
        !.taskLog = Append(@, "animateGrowth")]

\* the forEach of lines 741-770
writeOpacities(st, progress) ==
    [st EXCEPT
        !.particles = [i \in 1..Len(st.particles) |->
                          [st.particles[i] EXCEPT
                              !.currentOpacity = growthOpacity(st.particles[i], progress)]],
        !.opacityArray = [i \in 1..Len(st.particles) |->
                             growthOpacity(st.particles[i], progress)],
        !.taskLog = Append(@, "animateGrowth")]

\* the branch of animateGrowth that ends the growth, lines 776-783
completeGrowth(st) ==
    [st EXCEPT !.particles = [i \in 1..Len(st.particles) |->
                                 [st.particles[i] EXCEPT !.currentOpacity = One]],
               !.opacityArray = [i \in 1..Len(st.particles) |-> One]]

\* A faulty variant of continueGrowth, kept to show that GrowthEnds depends on
\* it: the growth step asks for another frame whatever the progress.
rescheduleGrowth(st, progress) ==
    [st EXCEPT !.rafQueue = Append(@, "animateGrowth")]

\* lines 774-784
continueGrowth(st, progress) ==
    IF RLt(progress, One)
    THEN [st EXCEPT !.rafQueue = Append(@, "animateGrowth")]
    ELSE completeGrowth(st)

\* animateGrowth, lines 733-785, run when performance.now() - startTime = elapsed
animateGrowth(st, elapsed) ==
    IF st.particleSystem = NULL \/ Len(st.particles) = 0 THEN st
    ELSE continueGrowth(writeOpacities(st, growthProgress(elapsed)),
                        growthProgress(elapsed))

\* Faulty variants of growTree, kept to show that IdempotentTrigger and
\* ExclusiveModes depend on it: one that does not latch isGrown, and one that
\* leaves the sapling animation enabled.
growTreeUnlatched ==
    /\ isGrown' = isGrown
    /\ saplingAnimationEnabled' = FALSE
    /\ flowAnimationEnabled' = TRUE
    /\ startTime' = now
    /\ SetStore(animateGrowth(
           [Task("click") EXCEPT !.taskLog = Append(@, "growTree")], 0))
growTreeKeepingSapling ==
    IF isGrown
    THEN /\ UNCHANGED growthFlags
         /\ SetStore(Task("click"))
    ELSE /\ isGrown' = TRUE
         /\ saplingAnimationEnabled' = saplingAnimationEnabled
         /\ flowAnimationEnabled' = TRUE
         /\ startTime' = now
         /\ SetStore(animateGrowth(
                [Task("click") EXCEPT !.taskLog = Append(@, "growTree")], 0))

\* growTree, lines 722-788
growTree ==
    IF isGrown
    THEN /\ UNCHANGED growthFlags
         /\ SetStore(Task("click"))
    ELSE /\ isGrown' = TRUE
         /\ saplingAnimationEnabled' = FALSE
         /\ flowAnimationEnabled' = TRUE
         /\ startTime' = now
         /\ SetStore(animateGrowth(
                [Task("click") EXCEPT !.taskLog = Append(@, "growTree")], 0))

(***************************************************************************)
(* Tree page: events                                                       *)
(***************************************************************************)
\* A faulty variant of MouseMove, kept to show that WritersByTask depends
\* on it: the listener also runs a pass over the opacities.
MouseMoveWriting ==
    /\ page = "tree"
    /\ \E e \in MousePoints :
          /\ prevMouseX' = mouseX
          /\ prevMouseY' = mouseY
          /\ mouseX' = e[1]
          /\ mouseY' = e[2]
          /\ mouseVelocityX' = e[1] - mouseX
          /\ mouseVelocityY' = e[2] - mouseY
    /\ SetStore(animateGrowth(Task("mousemove"), 0))
    /\ UNCHANGED <<canvasData, unitVars, page, phase, clockVars, frames,
                   growthFlags, boxVars, animationTime, showPointCloud>>

\* A faulty variant of MouseMove, kept to show that PointerTracker depends
\* on it: the velocity is taken against the position before the last one.
MouseMoveLagging ==
    /\ page = "tree"
    /\ \E e \in MousePoints :
          /\ prevMouseX' = mouseX
          /\ prevMouseY' = mouseY
          /\ mouseX' = e[1]
          /\ mouseY' = e[2]
          /\ mouseVelocityX' = e[1] - prevMouseX
          /\ mouseVelocityY' = e[2] - prevMouseY
    /\ taskLog' = <<"mousemove">>
    /\ UNCHANGED <<canvasData, unitVars, page, phase, clockVars, frames,
                   particleSystem, seedList, particles, positionsArray,
                   opacityArray, growthFlags, rafQueue, saplingFlowInitialized,
                   flowInitialized, boxVars, animationTime, showPointCloud>>

\* the mousemove listener of setupMouseTracking, lines 100-112
MouseMove ==
    /\ page = "tree"
    /\ \E e \in MousePoints :
          /\ prevMouseX' = mouseX
          /\ prevMouseY' = mouseY
          /\ mouseX' = e[1]
          /\ mouseY' = e[2]
          /\ mouseVelocityX' = e[1] - mouseX
          /\ mouseVelocityY' = e[2] - mouseY
    /\ taskLog' = <<"mousemove">>
    /\ UNCHANGED <<canvasData, unitVars, page, phase, clockVars, frames,
                   particleSystem, seedList, particles, positionsArray,
                   opacityArray, growthFlags, rafQueue, saplingFlowInitialized,
                   flowInitialized, boxVars, animationTime, showPointCloud>>

\* A faulty variant of ClickTriggerBox, kept to show that GrownOnce depends on
\* it: a click on the box of a grown tree re-arms the trigger.
ClickTriggerBoxRearm ==
    /\ page = "tree"
    /\ triggerBox # "removed"
    /\ IF ~isGrown
       THEN /\ triggerBox' = "hidden"
            /\ growTree
            /\ removeDue' = now + 4000
       ELSE /\ isGrown' = FALSE
            /\ UNCHANGED <<boxVars, saplingAnimationEnabled,
                           flowAnimationEnabled, startTime>>
            /\ SetStore(Task("click"))
    /\ UNCHANGED <<canvasData, unitVars, page, phase, clockVars, frames,
                   mouseVars, animationTime, showPointCloud>>

\* the click listener of the trigger box, lines 123-144
ClickTriggerBox ==
    /\ page = "tree"
    /\ triggerBox # "removed"
    /\ IF ~isGrown
       THEN /\ triggerBox' = "hidden"
            /\ growTree
            /\ removeDue' = now + 4000
       ELSE /\ UNCHANGED <<boxVars, growthFlags>>
            /\ SetStore(Task("click"))
    /\ UNCHANGED <<canvasData, unitVars, page, phase, clockVars, frames,
                   mouseVars, animationTime, showPointCloud>>

\* the timer of lines 137-140 fires
RemoveTriggerBox ==
    /\ page = "tree"
    /\ removeDue # NoTime
    /\ now >= removeDue
    /\ triggerBox' = "removed"
    /\ removeDue' = NoTime
    /\ taskLog' = <<"timeout">>
    /\ UNCHANGED <<canvasData, unitVars, page, phase, clockVars, frames,
                   mouseVars, particleSystem, seedList, particles,
                   positionsArray, opacityArray, growthFlags, rafQueue,
                   saplingFlowInitialized, flowInitialized, animationTime,
                   showPointCloud>>

\* the draws of one motion pass over the particles of parts
Respawning(parts) == { i \in MovedNext(parts) : respawns(parts[i]) }
FrameDraws(parts) ==
    [driftX : [Respawning(parts) -> RandDrift],
     driftZ : [Respawning(parts) -> RandDrift]]

\* lines 661-677: the buffers built from the particles
withBuffers(st) ==
    [st EXCEPT !.positionsArray = buildPositionsArray(st.particles),
               !.opacityArray = buildOpacityArray(st.particles)]

\* lines 574-719 for one choice of the sapling shuffle and the draws
buildParticleSystem(st, positions, saplingParticleSet, rnd) ==
    withBuffers([st EXCEPT
                    !.particleSystem = "Points",
                    !.seedList = positions,
                    !.particles = [i \in 1..Len(positions) |->
                                      makeParticle(positions, i, saplingParticleSet, rnd)]])

\* lines 574-719 for every choice
particleSystems(st, positions) ==
    UNION { { buildParticleSystem(st, positions, saplingParticleSet, rnd) :
                rnd \in ParticleDraws(positions, saplingParticleSet) } :
            saplingParticleSet \in SaplingSets(positions) }

\* A faulty variant of rootPass, kept to show that ExtensionFailureContained
\* depends on it: the particles of the pass that failed stay in the list.
rootPassLeaking(st) ==
    { [st EXCEPT !.seedList = @ \o ext,
                 !.taskLog = @ \o <<"extendRoots", "roots failed">>] :
        ext \in RootOutcomes(st.seedList) }

\* lines 554-561: extendRoots returns and its particles are pushed, or an
\* exception is thrown inside the try (by extendRoots or by the push) and
\* caught, which leaves positions as it was
rootPass(st) ==
    { [st EXCEPT !.seedList = @ \o ext,
                 !.taskLog = Append(@, "extendRoots")] :
        ext \in RootOutcomes(st.seedList) }
    \cup { [st EXCEPT !.taskLog = @ \o <<"extendRoots", "roots failed">>] }

\* lines 565-572, the same for extendBranches
branchPass(st) ==
    { [st EXCEPT !.seedList = @ \o ext,
                 !.taskLog = Append(@, "extendBranches")] :
        ext \in BranchOutcomes(st.seedList) }
    \cup { [st EXCEPT !.taskLog = @ \o <<"extendBranches", "branches failed">>] }

\* A faulty variant of extendAndBuild, kept to show that EmptySampleInert
\* depends on it: the check of line 545 is missing and a particle system is
\* built from whatever was sampled.
buildUnchecked(st, sampled) ==
    IF Len(sampled) = 0
    THEN { withBuffers([st EXCEPT !.particleSystem = "Points"]) }
    ELSE particleSystems(st, sampled)

\* lines 545-572: null when nothing was sampled, else the extensions are
\* appended to the sampled positions
extendAndBuild(st, sampled) ==
    IF Len(sampled) = 0 THEN {st}
    ELSE UNION { particleSystems(extended, extended.seedList) :
                   extended \in UNION { branchPass(rooted) :
                                          rooted \in rootPass([st EXCEPT !.seedList = sampled]) } }

\* createPointCloud(imageData), lines 476-719: the states it can leave
createPointCloud(st, imageData) ==
    UNION { extendAndBuild(st, samplePositions(imageData, rz)) :
              rz \in [1..Len(sampledPixels(imageData)) -> RandZ] }

\* img.onload (line 226) resolves the await of init; init goes on with
\* createPointCloud (step 6) and the first animate() call (step 7)
ImageLoaded ==
    /\ page = "tree"
    /\ phase = "loading"
    /\ phase' = "running"
    /\ \E imageData \in Images :
          /\ canvasData' = imageData
          /\ \E built \in createPointCloud(Task("load"), imageData) :
             \E rnd \in FrameDraws(built.particles) :
                SetStore(animate(built, rnd))
    /\ UNCHANGED <<unitVars, page, clockVars, frames, mouseVars, growthFlags,
                   boxVars, animationTime, showPointCloud>>

\* A faulty variant of ImageError, kept to show that LoadFailureAborts
\* depends on it: the rejection is swallowed at the await and init goes on to
\* createPointCloud (which finds no image) and animate().
ImageErrorSwallowed ==
    /\ page = "tree"
    /\ phase = "loading"
    /\ phase' = "failed"
    /\ \E rnd \in FrameDraws(particles) : SetStore(animate(Task("error"), rnd))
    /\ UNCHANGED <<canvasData, unitVars, page, clockVars, frames, mouseVars,
                   growthFlags, boxVars, animationTime, showPointCloud>>

\* img.onerror (line 231) rejects the await: init logs the error and ends
ImageError ==
    /\ page = "tree"
    /\ phase = "loading"
    /\ phase' = "failed"
    /\ taskLog' = <<"error">>
    /\ UNCHANGED <<canvasData, unitVars, page, clockVars, frames, mouseVars,
                   particleSystem, seedList, particles, positionsArray,
                   opacityArray, growthFlags, rafQueue, saplingFlowInitialized,
                   flowInitialized, boxVars, animationTime, showPointCloud>>

\* the display refresh runs the callbacks that were given to
\* requestAnimationFrame before it, in the order they were given
RECURSIVE runCallbacks(_, _, _)
runCallbacks(queue, st, rnd) ==
    IF queue = <<>> THEN st
    ELSE runCallbacks(Tail(queue),
                      IF Head(queue) = "animate"
                      THEN animate(st, rnd)
                      ELSE animateGrowth(st, now - startTime),
                      rnd)

refresh(limit) ==
    /\ page = "tree"
    /\ rafQueue # <<>>
    /\ frames < limit
    /\ frames' = frames + 1
    /\ \E rnd \in FrameDraws(particles) :
          SetStore(runCallbacks(rafQueue, [Task("frame") EXCEPT !.rafQueue = <<>>], rnd))
    /\ UNCHANGED <<canvasData, unitVars, page, phase, clockVars, mouseVars,
                   growthFlags, boxVars, animationTime, showPointCloud>>

Frame == refresh(MaxFrames)

\* time passes
Tick ==
    /\ ticks < MaxTicks
    /\ ticks' = ticks + 1
    /\ now' = now + TickMs
    /\ taskLog' = <<>>
    /\ UNCHANGED <<canvasData, unitVars, page, phase, frames, mouseVars,
                   particleSystem, seedList, particles, positionsArray,
                   opacityArray, growthFlags, rafQueue, saplingFlowInitialized,
                   flowInitialized, boxVars, animationTime, showPointCloud>>

(***************************************************************************)
(* Logo page (buildpage-engine.js)                                         *)
(***************************************************************************)
\* canvas pixels of the logo images, in raster order
LogoImage == << Pixel(250, 250, 0, 0, 0, 255) >>
LogoImages == {LogoImage, BlankImage}

LogoMousePoints == { <<512, 384>>, <<515, 380>> }

\* values Math.sin and Math.cos take on the float and sway arguments
TrigValues == {Zero, One}

\* the test of line 230
isLogoPixel(px) == px.alpha > 128 /\ RLt(brightness(px), Whole(128))

logoSamplePixel(px, rz) ==
    [x |-> Rat(2 * px.x - CONFIG.logo.size, 2),
     y |-> RNeg(Rat(2 * px.y - CONFIG.logo.size, 2)),
     z |-> RMul(RSub(rz, Rat(1, 2)), CONFIG.logo.depthRange)]

logoSamplePositions(imageData, rz) ==
    LET kept == SelectSeq(imageData, isLogoPixel)
    IN  [k \in 1..Len(kept) |-> logoSamplePixel(kept[k], rz[k])]

\* one element of particles = positions.map(...), lines 248-257
logoMakeParticle(pos, rnd, i) ==
    [originalX |-> pos.x,
     originalY |-> pos.y,
     originalZ |-> pos.z,
     phaseY |-> rnd.phaseY[i],
     phaseX |-> rnd.phaseX[i],
     speedMultiplier |-> RAdd(Rat(8, 10), RMul(rnd.speed[i], Rat(4, 10))),
     windOffsetX |-> Zero,
     windOffsetY |-> Zero]

\* the position buffer of lines 261-267
logoBuildPositionsArray(positions) ==
    [k \in 1..(3 * Len(positions)) |->
        LET pos == positions[(k + 2) \div 3]
        IN  CASE k % 3 = 1 -> pos.x
              [] k % 3 = 2 -> pos.y
              [] OTHER     -> pos.z]

\* lines 313-315
logoDistanceToMouse(particle) ==
    RSqrt(RAdd(RSquare(RSub(particle.originalX, mouseWorldX)),
               RSquare(RSub(particle.originalY, mouseWorldY))))

\* Math.cos(angle) (axis "x") or Math.sin(angle) (axis "y") of
\* angle = Math.atan2(dy, dx), lines 319-321; atan2(0, 0) is 0
angleDir(axis, delta, dist) ==
    IF dist = Zero THEN (IF axis = "x" THEN One ELSE Zero)
    ELSE RDiv(delta, dist)

\* A faulty variant of logoPush, kept to show that LogoPush depends on it:
\* the offset is drawn toward the pointer.
logoPull(offset, axis, delta, dist) ==
    RAdd(offset,
         RMul(RSub(RMul(RNeg(angleDir(axis, delta, dist)),
                        RMul(RSub(One, RDiv(dist, CONFIG.logo.mouseWindRadius)),
                             CONFIG.logo.mouseWindStrength)),
                   offset),
              Rat(15, 100)))

\* lines 318-324 along one axis
logoPush(offset, axis, delta, dist) ==
    RAdd(offset,
         RMul(RSub(RMul(angleDir(axis, delta, dist),
                        RMul(RSub(One, RDiv(dist, CONFIG.logo.mouseWindRadius)),
                             CONFIG.logo.mouseWindStrength)),
                   offset),
              Rat(15, 100)))

\* lines 326-327 along one axis
logoRelax(offset) ==
    RAdd(offset, RMul(RSub(Zero, offset), CONFIG.logo.windReturnSpeed))

\* lines 317-328 along one axis
logoWindOffset(offset, axis, delta, dist) ==
    IF RLt(dist, CONFIG.logo.mouseWindRadius)
    THEN logoPush(offset, axis, delta, dist)
    ELSE logoRelax(offset)

\* the wind part of the loop body of updateParticlePositions, lines 313-328
logoMoveParticle(particle) ==
    [particle EXCEPT
        !.windOffsetX = logoWindOffset(@, "x", RSub(particle.originalX, mouseWorldX),
                                       logoDistanceToMouse(particle)),
        !.windOffsetY = logoWindOffset(@, "y", RSub(particle.originalY, mouseWorldY),
                                       logoDistanceToMouse(particle))]

\* lines 310-311 and 330-332; sinY and cosX are the values of
\* Math.sin(time + phaseY) and Math.cos(time * 0.7 + phaseX)
logoWritePosition(particle, k, sinY, cosX) ==
    CASE k % 3 = 1 -> RAdd(RAdd(particle.originalX, RMul(cosX, CONFIG.logo.swayAmount)),
                           particle.windOffsetX)
      [] k % 3 = 2 -> RAdd(RAdd(particle.originalY, RMul(sinY, CONFIG.logo.floatAmount)),
                           particle.windOffsetY)
      [] OTHER     -> particle.originalZ

logoStorePositions(st, trig) ==
    [st EXCEPT
        !.positionsArray =
            [k \in 1..Len(@) |->
                logoWritePosition(st.particles[(k + 2) \div 3], k,
                                  trig.sinY[(k + 2) \div 3],
                                  trig.cosX[(k + 2) \div 3])]]

\* updateParticlePositions, lines 300-336
updateParticlePositions(st, trig) ==
    IF st.particleSystem = NULL \/ Len(st.particles) = 0 THEN st
    ELSE [logoStorePositions(
              [st EXCEPT !.particles = [i \in 1..Len(@) |-> logoMoveParticle(@[i])]],
              trig)
            EXCEPT !.taskLog = Append(@, "updateParticlePositions")]

\* animate, lines 293-345
logoAnimate(st, trig) ==
    [updateParticlePositions([st EXCEPT !.rafQueue = Append(@, "animate")], trig)
        EXCEPT !.taskLog = Append(@, "render")]

TrigDraws(n) == [sinY : [1..n -> TrigValues], cosX : [1..n -> TrigValues]]

\* lines 248-270 for one choice of the draws
logoBuildParticleSystem(st, positions, rnd) ==
    [st EXCEPT !.particleSystem = "Points",
               !.seedList = positions,
               !.particles = [i \in 1..Len(positions) |->
                                 logoMakeParticle(positions[i], rnd, i)],
               !.positionsArray = logoBuildPositionsArray(positions)]

\* lines 236-288: null when nothing was sampled
logoBuild(st, positions) ==
    IF Len(positions) = 0 THEN {st}
    ELSE { logoBuildParticleSystem(st, positions, rnd) :
             rnd \in [phaseY : [1..Len(positions) -> RandPhase],
                      phaseX : [1..Len(positions) -> RandPhase],
                      speed  : [1..Len(positions) -> RandSpeed]] }

\* createPointCloud(imageData) of the logo page, lines 192-288
logoCreatePointCloud(st, imageData) ==
    UNION { logoBuild(st, logoSamplePositions(imageData, rz)) :
              rz \in [1..Len(SelectSeq(imageData, isLogoPixel)) -> RandZ] }

\* the mousemove listener, lines 83-86
LogoMouseMove ==
    /\ page = "logo"
    /\ \E e \in LogoMousePoints :
          /\ mouseX' = e[1]
          /\ mouseY' = e[2]
    /\ taskLog' = <<"mousemove">>
    /\ UNCHANGED <<canvasData, unitVars, page, phase, clockVars, frames,
                   prevMouseX, prevMouseY, mouseVelocityX, mouseVelocityY,
                   particleSystem, seedList, particles, positionsArray,
                   opacityArray, growthFlags, rafQueue, saplingFlowInitialized,
                   flowInitialized, boxVars, animationTime, showPointCloud>>

\* the keydown and click listeners, lines 92-103
LogoToggle ==
    /\ page = "logo"
    /\ showPointCloud' = ~showPointCloud
    /\ taskLog' = <<"toggle">>
    /\ UNCHANGED <<canvasData, unitVars, page, phase, clockVars, frames,
                   mouseVars, particleSystem, seedList, particles,
                   positionsArray, opacityArray, growthFlags, rafQueue,
                   saplingFlowInitialized, flowInitialized, boxVars,
                   animationTime>>

\* img.onload resolves the await of init, which goes on with createPointCloud
\* and the first animate() call, lines 376-394
LogoImageLoaded ==
    /\ page = "logo"
    /\ phase = "loading"
    /\ phase' = "running"
    /\ animationTime' = animationTime + 1
    /\ \E imageData \in LogoImages :
          /\ canvasData' = imageData
          /\ \E built \in logoCreatePointCloud(Task("load"), imageData) :
             \E trig \in TrigDraws(Len(built.particles)) :
                SetStore(logoAnimate(built, trig))
    /\ UNCHANGED <<unitVars, page, clockVars, frames, mouseVars, growthFlags,
                   boxVars, showPointCloud>>

\* img.onerror rejects the await: init logs the error and ends
LogoImageError ==
    /\ page = "logo"
    /\ phase = "loading"
    /\ phase' = "failed"
    /\ taskLog' = <<"error">>
    /\ UNCHANGED <<canvasData, unitVars, page, clockVars, frames, mouseVars,
                   particleSystem, seedList, particles, positionsArray,
                   opacityArray, growthFlags, rafQueue, saplingFlowInitialized,
                   flowInitialized, boxVars, animationTime, showPointCloud>>

\* a display refresh of the logo page
logoRefresh(limit) ==
    /\ page = "logo"
    /\ rafQueue # <<>>
    /\ frames < limit
    /\ frames' = frames + 1
    /\ animationTime' = animationTime + 1
    /\ \E trig \in TrigDraws(Len(particles)) :
          SetStore(logoAnimate([Task("frame") EXCEPT !.rafQueue = <<>>], trig))
    /\ UNCHANGED <<canvasData, unitVars, page, phase, clockVars, mouseVars,
                   growthFlags, boxVars, showPointCloud>>

LogoFrame == logoRefresh(MaxFrames)

(***************************************************************************)
(* Specification                                                           *)
(***************************************************************************)
\* no run of extendRoots on its own
NoRootRun == [rootStarts |-> 0, left |-> 0, newParticles |-> 0, calls |-> <<>>,
              bodies |-> 0]

\* no run of extendBranches on its own
NoBranchRun == [entered |-> 0, tips |-> 0, segments |-> 0, i |-> 1, steps |-> 0,
                newParticles |-> 0]

\* chunks of a point cloud in the model, and the error events of a worker
MaxChunks == 4
MaxWorkerErrors == 1
Chunks == 0..(MaxChunks - 1)

\* the home page before startPreloading is called: the globals of lines
\* 253-257, no worker, nothing in flight
NoPreload ==
    [preloadInProgress |-> FALSE,
     preloadComplete |-> FALSE,
     pc |-> "idle",
     worker |-> "null",
     alive |-> FALSE,
     chunkCount |-> 0,
     sent |-> 0,
     credit |-> 0,
     inbox |-> <<>>,
     received |-> {},
     storing |-> {},
     stored |-> {},
     rejected |-> {},
     acks |-> [k \in Chunks |-> 0],
     errors |-> 0]

\* the globals of lines 40-55 (tree) and 30-38 (logo), at the await of init
Globals ==
    /\ page \in {"tree", "logo"}
    /\ phase = "loading"
    /\ now = 0
    /\ ticks = 0
    /\ frames = 0
    /\ mouseX = 0
    /\ mouseY = 0
    /\ prevMouseX = 0
    /\ prevMouseY = 0
    /\ mouseVelocityX = 0
    /\ mouseVelocityY = 0
    /\ particleSystem = NULL
    /\ particles = <<>>
    /\ positionsArray = <<>>
    /\ opacityArray = <<>>
    /\ isGrown = FALSE
    /\ flowAnimationEnabled = FALSE
    /\ saplingAnimationEnabled = TRUE
    /\ startTime = NoTime
    /\ rafQueue = <<>>
    /\ saplingFlowInitialized = FALSE
    /\ flowInitialized = FALSE
    /\ triggerBox = "shown"
    /\ removeDue = NoTime
    /\ animationTime = 0
    /\ showPointCloud = (page = "tree")
    /\ taskLog = <<>>
    /\ seedList = <<>>
    /\ sampleRuns = <<>>

Init ==
    /\ Globals
    /\ canvasData = <<>>
    /\ rootRun = NoRootRun
    /\ branchRun = NoBranchRun
    /\ preload = NoPreload

Next ==
    \/ ImageLoaded
    \/ ImageError
    \/ MouseMove
    \/ ClickTriggerBox
    \/ RemoveTriggerBox
    \/ Frame
    \/ Tick
    \/ LogoImageLoaded
    \/ LogoImageError
    \/ LogoMouseMove
    \/ LogoToggle
    \/ LogoFrame

Spec == Init /\ [][Next]_vars

(***************************************************************************)
(* The sampling loop taken alone                                           *)
(*                                                                         *)
(* The loop of lines 501-543 (217-238 on the logo page) is a function of   *)
(* the pixel data and of the random draws.  SamplerSpec starts with pixel  *)
(* data whose channels lie on both sides of the thresholds and runs the    *)
(* loop on them, more than once.                                           *)
(***************************************************************************)
\* runs of the sampling loop on the same pixel data
MaxRuns == 2

\* (r, g, b) on both sides of brightness 128, and alpha on both sides of 128
ProbeColours ==
    { <<0, 0, 0>>, <<127, 128, 128>>, <<128, 128, 128>>, <<255, 0, 128>>,
      <<255, 1, 128>>, <<129, 127, 127>>, <<255, 255, 255>> }
ProbeAlphas == {0, 128, 129, 255}
\* values of Math.random() for the depth
ProbeRandZ == {Zero, Rat(1, 2)}

\* canvas.width = canvas.height of the page
canvasSize == IF page = "tree" THEN CONFIG.tree.size ELSE CONFIG.logo.size

\* the pixels at (x, y)
ProbePixels(x, y) ==
    { Pixel(x, y, c[1], c[2], c[3], alpha) : c \in ProbeColours, alpha \in ProbeAlphas }

\* pixel data with one pixel that is not background, at the centre, in the
\* last column, in the lower quarter or in the bottom rows, or with two of
\* them, in raster order
ProbeImages(size) ==
    { <<px>> : px \in ProbePixels(size \div 2, size \div 2)
                      \cup ProbePixels(size - 1, 3)
                      \cup ProbePixels(size \div 2, (3 * size) \div 4)
                      \cup ProbePixels(size \div 2, size - 2) }
    \cup { <<first, second>> : first \in ProbePixels(7, 0),
                                second \in ProbePixels(size \div 2, size \div 2) }

SamplerInit ==
    /\ Globals
    /\ canvasData \in ProbeImages(canvasSize)
    /\ rootRun = NoRootRun
    /\ branchRun = NoBranchRun
    /\ preload = NoPreload

\* the seeds the loop of the page leaves for the draws rz
sampleCanvas(imageData, rz) ==
    IF page = "tree" THEN samplePositions(imageData, rz)
    ELSE logoSamplePositions(imageData, rz)

\* the pixels the loop of the page keeps
keptPixels(imageData) ==
    IF page = "tree" THEN sampledPixels(imageData)
    ELSE SelectSeq(imageData, isLogoPixel)

\* one run of the sampling loop
Sample ==
    /\ Len(sampleRuns) < MaxRuns
    /\ \E rz \in [1..Len(keptPixels(canvasData)) -> ProbeRandZ] :
          sampleRuns' = Append(sampleRuns, sampleCanvas(canvasData, rz))
    /\ UNCHANGED <<rootRun, branchRun, preload, pageVars>>

SamplerNext == Sample

SamplerSpec == SamplerInit /\ [][SamplerNext]_vars

(***************************************************************************)
(* extendRoots taken alone                                                 *)
(*                                                                         *)
(* RootSpec follows one call of extendRoots through its calls of           *)
(* createRootBranch and counts the particles pushed to newParticles; the   *)
(* coordinates of the particles play no part in the control flow and are   *)
(* left out.                                                               *)
(***************************************************************************)
\* rootStarts.length is at most the number of root base particles tried
MaxRootBase == 52

\* line 256
maxRootStarts == 50

\* values of Math.random() for branchLength (line 281: the draw that gives
\* the longest branch, 29 segments), for the chance to branch (line 327) and
\* for numBranches (line 328)
RandLength == {Rat(999, 1000)}
RandBranch == {Rat(1, 10), Rat(1, 2)}
RandNumBranches == {Rat(1, 2), Rat(9, 10)}

\* rootStarts.length of the runs that are followed
RootStartCounts == {0, 1, MaxRootBase}

\* limitedRootStarts.length, line 257
limitRootStarts(n) == IF n > maxRootStarts THEN maxRootStarts ELSE n

\* lines 281-282
segmentsOf(r) == Floor(RDiv(RAdd(Whole(50), RMul(r, Whole(70))), Whole(4)))

\* A faulty variant of ringParticles, kept to show that RootParticlesBounded
\* depends on it: rings a thousand times denser.
ringParticlesDense(thickness, i, segments) ==
    Floor(RMul(RMul(thickness, RSub(One, RMul(Rat(i, segments), Rat(1, 2)))),
               Whole(4000)))

\* particlesInRing of segment i, lines 295 and 308-309
ringParticles(thickness, i, segments) ==
    LET n == Floor(RMul(RMul(thickness, RSub(One, RMul(Rat(i, segments), Rat(1, 2)))),
                        Whole(4)))
    IN  IF n < 1 THEN 1 ELSE n

\* the particles the loop of lines 294-323 pushes in its segments i..segments-1
RECURSIVE ringsFrom(_, _, _)
ringsFrom(thickness, i, segments) ==
    IF i >= segments THEN 0
    ELSE ringParticles(thickness, i, segments) + ringsFrom(thickness, i + 1, segments)

\* the thickness of a call at depth 0, 1, 2: 1.0, then x 0.6 per level (line 342)
RootThickness == {One, Rat(6, 10), Rat(36, 100)}

\* the particles one branch body pushes, for each thickness and length drawn
branchParticles ==
    [thickness \in RootThickness, r \in RandLength |->
        ringsFrom(thickness, 0, segmentsOf(r))]

\* the guard of line 277
returnsAtOnce(call, length) ==
    \/ call.depth >= 2
    \/ RLt(call.thickness, Rat(2, 10))
    \/ length > 100000

\* A faulty variant of branches, kept to show that RootRecursionBounded
\* depends on it: the test of the depth is missing.
branchesAtAnyDepth(call, length, r) ==
    RLt(r, Rat(35, 100)) /\ length < 80000

\* the condition of line 327
branches(call, length, r) ==
    call.depth < 1 /\ RLt(r, Rat(35, 100)) /\ length < 80000

\* line 328
numBranches(r) == IF RLt(r, Rat(7, 10)) THEN 2 ELSE 3

\* the calls of lines 330-343, made when the body of call has pushed its
\* particles and newParticles has the given length
childCalls(call, length, rb, rn) ==
    IF branches(call, length, rb)
    THEN [b \in 1..numBranches(rn) |->
             [depth |-> call.depth + 1,
              thickness |-> RMul(call.thickness, Rat(6, 10))]]
    ELSE <<>>

\* the forEach of lines 262-269 goes on to its next starting point when the
\* calls made for the last one have returned
nextRootStart(run) ==
    IF run.calls = <<>> /\ run.left > 0
    THEN [run EXCEPT !.calls = << [depth |-> 0, thickness |-> One] >>,
                     !.left = @ - 1,
                     !.bodies = 0]
    ELSE run

\* the body of createRootBranch for the call at the head of run.calls, which
\* finds newParticles grown to length when it reaches line 327
branchBody(run, call, length, rb, rn) ==
    [run EXCEPT !.newParticles = length,
                !.bodies = @ + 1,
                !.calls = childCalls(call, length, rb, rn) \o Tail(@)]

\* one call of createRootBranch, lines 275-345
rootBranchCall(run, call, rl, rb, rn) ==
    nextRootStart(
        IF returnsAtOnce(call, run.newParticles)
        THEN [run EXCEPT !.calls = Tail(@)]
        ELSE branchBody(run, call,
                        run.newParticles + branchParticles[call.thickness, rl],
                        rb, rn))

\* extendRoots with n selected starting points, at its first call
extendRootsStart(n) ==
    nextRootStart([rootStarts |-> n, left |-> limitRootStarts(n),
                   newParticles |-> 0, calls |-> <<>>, bodies |-> 0])

RootInit ==
    /\ Globals
    /\ page = "tree"
    /\ canvasData = <<>>
    /\ rootRun \in { extendRootsStart(n) : n \in RootStartCounts }
    /\ branchRun = NoBranchRun
    /\ preload = NoPreload

createRootBranch ==
    /\ rootRun.calls # <<>>
    /\ \E rl \in RandLength, rb \in RandBranch, rn \in RandNumBranches :
          rootRun' = rootBranchCall(rootRun, Head(rootRun.calls), rl, rb, rn)
    /\ UNCHANGED <<sampleRuns, branchRun, preload, pageVars>>

RootNext == createRootBranch

RootSpec == RootInit /\ [][RootNext]_vars

(***************************************************************************)
(* extendBranches on its own                                               *)
(*                                                                         *)
(* BranchSpec runs the forEach of lines 424-470 over the branch tips that  *)
(* line 422 has sampled, one step of the inner loop at a time.  The        *)
(* coordinates of the particles are left out: the run keeps their number.  *)
(***************************************************************************)
\* branch tips that pass the filter of line 422
MaxTips == 3
BranchTipCounts == 0..MaxTips

\* values of Math.random() at lines 430 and 455
RandExtension == {Zero, Rat(1, 2), Rat(999, 1000)}
RandDensity == {Zero, Rat(1, 5), Rat(1, 2)}

\* line 456
particlesAtSegment == 1

\* A faulty variant of extensionSegments, kept to show that
\* BranchExtensionBounded depends on it: one step for each pixel of length.
segmentsPerPixel(r) == Floor(RAdd(Whole(30), RMul(r, Whole(30))))

\* lines 430-431: Math.floor(extensionLength / 3)
extensionSegments(r) ==
    Floor(RDiv(RAdd(Whole(30), RMul(r, Whole(30))), Whole(3)))

\* line 452: Math.pow(1 - progress, 2.0) * 0.4 with progress = i / segments
density(i, segments) ==
    RMul(RSquare(RSub(One, Rat(i, segments))), Rat(4, 10))

\* the particles step i pushes for the draw rd of line 455
pushedAt(rd, i, segments) ==
    IF RLt(rd, density(i, segments)) THEN particlesAtSegment ELSE 0

\* extendBranches entered with n sampled tips, before the forEach
extendBranchesStart(n) ==
    [entered |-> 1, tips |-> n, segments |-> 0, i |-> 1, steps |-> 0,
     newParticles |-> 0]

BranchInit ==
    /\ Globals
    /\ page = "tree"
    /\ canvasData = <<>>
    /\ rootRun = NoRootRun
    /\ branchRun \in { extendBranchesStart(n) : n \in BranchTipCounts }
    /\ preload = NoPreload

\* the forEach callback of line 424 starts on the next tip: lines 425-436
extendTip ==
    /\ branchRun.entered = 1
    /\ branchRun.i > branchRun.segments
    /\ branchRun.tips > 0
    /\ \E r \in RandExtension :
          branchRun' = [branchRun EXCEPT !.tips = @ - 1,
                                        !.segments = extensionSegments(r),
                                        !.i = 1,
                                        !.steps = 0]
    /\ UNCHANGED <<sampleRuns, rootRun, preload, pageVars>>

\* one pass of the loop of lines 438-469
extensionStep ==
    /\ branchRun.entered = 1
    /\ branchRun.i <= branchRun.segments
    /\ \E rd \in RandDensity :
          branchRun' = [branchRun EXCEPT
                          !.i = @ + 1,
                          !.steps = @ + 1,
                          !.newParticles =
                              @ + pushedAt(rd, branchRun.i, branchRun.segments)]
    /\ UNCHANGED <<sampleRuns, rootRun, preload, pageVars>>

BranchNext ==
    \/ extendTip
    \/ extensionStep

BranchSpec == BranchInit /\ [][BranchNext]_vars

(***************************************************************************)
(* Home page: startPreloading (src/unnamed/part_002, lines 471-567)        *)
(*                                                                         *)
(* preload.pc is the await at which the call of startPreloading stands;    *)
(* inbox holds the messages the worker has posted and the page has not yet *)
(* handled, credit counts the messages posted to the worker that it has    *)
(* not yet taken.  The worker and the cache are other files: the worker    *)
(* posts one message for each message it takes (lines 524, 538-540), and   *)
(* every awaited call either fulfils or rejects.                           *)
(***************************************************************************)
ChunkReady(k) == [type |-> "CHUNK_READY", chunkIndex |-> k]
ProcessingComplete == [type |-> "PROCESSING_COMPLETE", chunkIndex |-> 0]

\* lines 471-492: the call up to the await of checkCache
startPreloadingCall(pl) ==
    IF pl.preloadInProgress \/ pl.preloadComplete
    THEN [pl EXCEPT !.pc = "done"]
    ELSE [pl EXCEPT !.preloadInProgress = TRUE, !.pc = "checkCache"]

\* lines 563-566: the catch block
preloadError(pl) == [pl EXCEPT !.preloadInProgress = FALSE, !.pc = "done"]

\* lines 492-504: checkCache has settled
afterCheckCache(pl, outcome) ==
    CASE outcome = "hit" ->
           [pl EXCEPT !.preloadComplete = TRUE,
                      !.preloadInProgress = FALSE,
                      !.pc = "done"]
      [] outcome = "miss" -> [pl EXCEPT !.pc = "getPointcloudData"]
      [] OTHER -> preloadError(pl)

\* lines 504-561: getPointcloudData has settled; a valid response with n
\* chunks of data starts the worker and posts PROCESS_POINTCLOUD to it
afterGetPointcloudData(pl, outcome, n) ==
    IF outcome = "valid"
    THEN [pl EXCEPT !.worker = "running",
                    !.alive = TRUE,
                    !.chunkCount = n,
                    !.credit = 1,
                    !.pc = "done"]
    ELSE preloadError(pl)

\* the worker takes PROCESS_POINTCLOUD or ACK_CHUNK and posts the next chunk,
\* or PROCESSING_COMPLETE after the last one
workerReply(pl) ==
    IF pl.sent < pl.chunkCount
    THEN [pl EXCEPT !.credit = @ - 1,
                    !.inbox = Append(@, ChunkReady(pl.sent)),
                    !.sent = @ + 1]
    ELSE [pl EXCEPT !.credit = @ - 1,
                    !.inbox = Append(@, ProcessingComplete)]

\* worker.postMessage({ type: 'ACK_CHUNK' }) for chunk k, line 539; a
\* terminated worker takes no message
postAck(pl, k) ==
    [pl EXCEPT !.acks[k] = @ + 1,
               !.credit = IF pl.worker = "running" THEN @ + 1 ELSE @]

\* A faulty variant of chunkReady, kept to show that AckAfterStore depends
\* on it: the ACK is posted before the chunk is stored.
chunkReadyAckFirst(pl, k) ==
    postAck([pl EXCEPT !.received = @ \cup {k}, !.storing = @ \cup {k}], k)

\* lines 524-535: onmessage with CHUNK_READY, up to the await of storeChunk
chunkReady(pl, k) ==
    [pl EXCEPT !.received = @ \cup {k}, !.storing = @ \cup {k}]

\* lines 535-539: storeChunk has fulfilled and the handler goes on
chunkStored(pl, k) ==
    postAck([pl EXCEPT !.storing = @ \ {k}, !.stored = @ \cup {k}], k)

\* storeChunk has rejected: the handler ends at line 535 with a rejection
\* that nothing catches
storeRejected(pl, k) ==
    [pl EXCEPT !.storing = @ \ {k}, !.rejected = @ \cup {k}]

\* lines 540-545: onmessage with PROCESSING_COMPLETE
processingComplete(pl) ==
    [pl EXCEPT !.preloadComplete = TRUE,
               !.preloadInProgress = FALSE,
               !.worker = "terminated",
               !.credit = 0]

\* lines 521-546: worker.onmessage
onmessageHandler(pl, msg) ==
    LET rest == [pl EXCEPT !.inbox = Tail(@)]
    IN  CASE msg.type = "CHUNK_READY" -> chunkReady(rest, msg.chunkIndex)
          [] msg.type = "PROCESSING_COMPLETE" -> processingComplete(rest)
          [] OTHER -> rest

\* lines 548-551: worker.onerror
onerrorHandler(pl) ==
    [pl EXCEPT !.preloadInProgress = FALSE, !.errors = @ + 1]

PreloadInit ==
    /\ Globals
    /\ page = "tree"
    /\ canvasData = <<>>
    /\ rootRun = NoRootRun
    /\ branchRun = NoBranchRun
    /\ preload = NoPreload

\* initializeHomePage calls startPreloading, line 358
startPreloading ==
    /\ preload.pc = "idle"
    /\ preload' = startPreloadingCall(preload)
    /\ UNCHANGED <<sampleRuns, rootRun, branchRun, pageVars>>

checkCacheSettled ==
    /\ preload.pc = "checkCache"
    /\ \E outcome \in {"hit", "miss", "rejected"} :
          preload' = afterCheckCache(preload, outcome)
    /\ UNCHANGED <<sampleRuns, rootRun, branchRun, pageVars>>

getPointcloudDataSettled ==
    /\ preload.pc = "getPointcloudData"
    /\ \E outcome \in {"valid", "invalid", "rejected"}, n \in 1..MaxChunks :
          preload' = afterGetPointcloudData(preload, outcome, n)
    /\ UNCHANGED <<sampleRuns, rootRun, branchRun, pageVars>>

workerPosts ==
    /\ preload.worker = "running"
    /\ preload.alive
    /\ preload.credit > 0
    /\ preload' = workerReply(preload)
    /\ UNCHANGED <<sampleRuns, rootRun, branchRun, pageVars>>

onmessage ==
    /\ preload.worker = "running"
    /\ preload.inbox # <<>>
    /\ preload' = onmessageHandler(preload, Head(preload.inbox))
    /\ UNCHANGED <<sampleRuns, rootRun, branchRun, pageVars>>

storeChunkSettled ==
    /\ \E k \in preload.storing :
          \/ preload' = chunkStored(preload, k)
          \/ preload' = storeRejected(preload, k)
    /\ UNCHANGED <<sampleRuns, rootRun, branchRun, pageVars>>

\* an error event of the worker; the worker goes on or takes no more messages
onerror ==
    /\ preload.worker = "running"
    /\ preload.errors < MaxWorkerErrors
    /\ \E goesOn \in BOOLEAN :
          preload' = [onerrorHandler(preload) EXCEPT !.alive = goesOn]
    /\ UNCHANGED <<sampleRuns, rootRun, branchRun, pageVars>>

PreloadNext ==
    \/ startPreloading
    \/ checkCacheSettled
    \/ getPointcloudDataSettled
    \/ workerPosts
    \/ onmessage
    \/ storeChunkSettled
    \/ onerror

PreloadSpec == PreloadInit /\ [][PreloadNext]_vars

\* every awaited call settles, every posted message is taken and handled
PreloadFairSpec ==
    /\ PreloadSpec
    /\ WF_vars(startPreloading)
    /\ WF_vars(checkCacheSettled)
    /\ WF_vars(getPointcloudDataSettled)
    /\ WF_vars(workerPosts)
    /\ WF_vars(onmessage)
    /\ WF_vars(storeChunkSettled)

(***************************************************************************)
(* Frames after the pointer has left                                       *)
(*                                                                         *)
(* WindSpec starts where the pointer has pushed the particles and has then *)
(* moved to the corner of the window, away from all of them, and runs the  *)
(* frames that follow.                                                     *)
(***************************************************************************)
\* frames after the pointer has left
MaxWindFrames == 3

\* (windOffsetX, windOffsetY) the push has left on a particle
StartOffsets ==
    { [x |-> Whole(20), y |-> Zero], [x |-> Rat(0 - 25, 2), y |-> Whole(5)] }

\* the module-level state of a page before its image has loaded
unloaded ==
    [particleSystem |-> NULL,
     particles |-> <<>>,
     positionsArray |-> <<>>,
     opacityArray |-> <<>>,
     rafQueue |-> <<>>,
     saplingFlowInitialized |-> FALSE,
     flowInitialized |-> FALSE,
     taskLog |-> <<"load">>,
     seedList |-> <<>>]

\* the pages as init leaves them after the first animate() call
loadedTree ==
    UNION { { animate(made, rnd) : rnd \in FrameDraws(made.particles) } :
              made \in createPointCloud(unloaded, TreeImage) }
loadedLogo ==
    UNION { { logoAnimate(made, trig) :
                trig \in TrigDraws(Len(made.particles)) } :
              made \in logoCreatePointCloud(unloaded, LogoImage) }

\* the particles the frames have moved so far: the sapling, or all the logo
pushedIndices(parts) ==
    IF page = "tree" THEN saplingIndices(parts) ELSE 1..Len(parts)

\* the store after frames in which the pointer pushed the moved particles
\* to the offset start
pushedStore(st, start) ==
    [st EXCEPT !.particles =
                   [i \in 1..Len(@) |->
                       IF i \in pushedIndices(@)
                       THEN [@[i] EXCEPT !.windOffsetX = start.x,
                                         !.windOffsetY = start.y]
                       ELSE @[i]],
               !.taskLog = <<>>]

\* the position buffer as the last of those frames wrote it
pushedPositions(st) ==
    IF page = "tree"
    THEN writePositions(st.positionsArray, st.particles, saplingIndices(st.particles))
    ELSE [k \in 1..Len(st.positionsArray) |->
             IF k % 3 = 0 THEN st.positionsArray[k]
             ELSE logoWritePosition(st.particles[(k + 2) \div 3], k, Zero, Zero)]

WindInit ==
    /\ page \in {"tree", "logo"}
    /\ phase = "running"
    /\ now = 0
    /\ ticks = 0
    /\ frames = 0
    /\ mouseX = 0
    /\ mouseY = 0
    /\ prevMouseX = (IF page = "tree" THEN 512 ELSE 0)
    /\ prevMouseY = (IF page = "tree" THEN 384 ELSE 0)
    /\ mouseVelocityX = mouseX - prevMouseX
    /\ mouseVelocityY = mouseY - prevMouseY
    /\ isGrown = FALSE
    /\ flowAnimationEnabled = FALSE
    /\ saplingAnimationEnabled = TRUE
    /\ startTime = NoTime
    /\ triggerBox = "shown"
    /\ removeDue = NoTime
    /\ animationTime = 0
    /\ showPointCloud = (page = "tree")
    /\ canvasData = IF page = "tree" THEN TreeImage ELSE LogoImage
    /\ sampleRuns = <<>>
    /\ rootRun = NoRootRun
    /\ branchRun = NoBranchRun
    /\ preload = NoPreload
    /\ \E loaded \in (IF page = "tree" THEN loadedTree ELSE loadedLogo) :
       \E start \in StartOffsets :
       \E st \in { pushedStore(loaded, start) } :
          /\ particleSystem = st.particleSystem
          /\ particles = st.particles
          /\ positionsArray = pushedPositions(st)
          /\ opacityArray = st.opacityArray
          /\ rafQueue = st.rafQueue
          /\ saplingFlowInitialized = st.saplingFlowInitialized
          /\ flowInitialized = st.flowInitialized
          /\ taskLog = st.taskLog
          /\ seedList = st.seedList

WindFrame == refresh(MaxWindFrames)
WindLogoFrame == logoRefresh(MaxWindFrames)

WindNext ==
    \/ WindFrame
    \/ WindLogoFrame
    \/ ClickTriggerBox

WindSpec == WindInit /\ [][WindNext]_vars

(***************************************************************************)
(* Properties: growth                                                      *)
(***************************************************************************)
Range(f) == { f[i] : i \in DOMAIN f }

\* the last task ran the function fn
ran(fn) == fn \in Range(taskLog)
\* the last step was the task name
lastTask(name) == taskLog # <<>> /\ Head(taskLog) = name
\* the callback cb waits for the next display refresh
pending(cb) == cb \in Range(rafQueue)

\* growTree has run (it takes its startTime)
triggered == startTime # NoTime
\* performance.now() - startTime
sinceTrigger == now - startTime

nonSapling == { i \in 1..Len(particles) : ~particles[i].isSaplingParticle }

allOpaque ==
    \A i \in 1..Len(particles) :
        particles[i].currentOpacity = One /\ opacityArray[i] = One

\* C1: Growth completion.  Whatever the order of the trigger, the image load
\* and the frames: once a frame has run with at least growthDuration elapsed
\* since the trigger, every particle's currentOpacity and opacity buffer
\* entry is 1 and no growth step is pending.
GrowthCompletion ==
    (/\ page = "tree"
     /\ triggered
     /\ sinceTrigger >= duration
     /\ lastTask("frame")
     /\ particles # <<>>)
    => allOpaque /\ ~pending("animateGrowth")

\* the animateGrowth callbacks that wait for the next display refresh
atMostOneGrowthPending ==
    Cardinality({ i \in DOMAIN rafQueue : rafQueue[i] = "animateGrowth" }) <= 1

\* C2: Idempotent trigger.  A click on the trigger box after growTree has run
\* changes none of isGrown, saplingAnimationEnabled, flowAnimationEnabled,
\* the start time, the particle opacities and the pending callbacks, and at
\* most one animateGrowth callback is pending at any time.
IdempotentTrigger ==
    /\ [](page = "tree" => atMostOneGrowthPending)
    /\ [][(page = "tree" /\ triggered /\ taskLog' # <<>> /\ Head(taskLog') = "click")
            => UNCHANGED <<isGrown, saplingAnimationEnabled, flowAnimationEnabled,
                           startTime, particles, opacityArray, rafQueue>>]_vars

\* a click that was ignored while a growth callback is pending
RepeatedTriggerIgnored ==
    /\ page = "tree"
    /\ isGrown
    /\ taskLog = <<"click">>
    /\ particles # <<>>
    /\ pending("animateGrowth")

\* C3: isGrown is false initially and, once true, stays true through every
\* event, frame and trigger (so it changes from false to true at most once).
GrownOnce == ~isGrown /\ [][isGrown => isGrown']_vars

\* isGrown is still true after the box was removed and growth has ended
GrownStays ==
    /\ page = "tree"
    /\ isGrown
    /\ triggerBox = "removed"
    /\ lastTask("frame")
    /\ sinceTrigger >= duration

\* C4: Growth monotonicity.  No step lowers the currentOpacity of a particle:
\* not the first growth step after the pre-trigger value, not a later growth
\* frame, not the final forced value 1.
GrowthMonotonic ==
    [][(page = "tree" /\ Len(particles') = Len(particles))
         => \A i \in 1..Len(particles) :
                RLe(particles[i].currentOpacity, particles'[i].currentOpacity)]_vars

\* a growth frame has brought one hidden particle to 1 and another part of
\* the way
GrowthUnderWay ==
    /\ page = "tree"
    /\ lastTask("frame")
    /\ ran("animateGrowth")
    /\ \E i \in nonSapling, j \in nonSapling :
          /\ particles[i].currentOpacity = One
          /\ RLt(Zero, particles[j].currentOpacity)
          /\ RLt(particles[j].currentOpacity, One)

\* the opacity a particle is created with
createdOpacity(i) == IF particles[i].isSaplingParticle THEN One ELSE Zero

\* C5: Before the growth trigger, and at elapsed time 0 of the growth, the
\* opacity of a particle (record and buffer entry) is 1 if it is a sapling
\* particle and 0 otherwise; a sapling frame changes no opacity.
InitialOpacities ==
    /\ [](page = "tree" /\ (~triggered \/ sinceTrigger = 0)
            => \A i \in 1..Len(particles) :
                  /\ particles[i].currentOpacity = createdOpacity(i)
                  /\ opacityArray[i] = createdOpacity(i))
    /\ [][(page = "tree" /\ "updateSaplingAnimation" \in Range(taskLog')
             /\ Len(particles') = Len(particles))
            => /\ opacityArray' = opacityArray
               /\ \A i \in 1..Len(particles) :
                     particles'[i].currentOpacity = particles[i].currentOpacity]_vars

\* C6: A sapling particle has currentOpacity 1 in every reachable state:
\* before the trigger, on every growth frame and after growth completes.
SaplingOpaque ==
    page = "tree"
    => \A i \in 1..Len(particles) :
          particles[i].isSaplingParticle => particles[i].currentOpacity = One

\* a growth frame in mid-growth has left a sapling particle next to a particle
\* that is not yet fully visible
SaplingDuringGrowth ==
    /\ page = "tree"
    /\ ran("animateGrowth")
    /\ sinceTrigger > 0
    /\ sinceTrigger < duration
    /\ \E i \in 1..Len(particles) : particles[i].isSaplingParticle
    /\ \E j \in nonSapling : RLt(particles[j].currentOpacity, One)

\* the reference opacity of a particle the growth wave has passed by d
referenceOpacity(d) ==
    CASE RLt(d, Zero) -> Zero
      [] RLe(Zero, d) /\ RLt(d, Rat(1, 4)) -> RMul(d, Whole(4))
      [] OTHER -> One

\* d = p * (1 + 0.25) - growthOrder for the progress p of the current time
waveDistance(i) ==
    RSub(RMul(Rat(sinceTrigger, duration), Rat(5, 4)), particles[i].growthOrder)

\* C7: After a growth step with progress p = elapsed/duration < 1, the
\* opacity of each non-sapling particle, and its opacity buffer entry, is the
\* reference function of d = p * 1.25 - growthOrder: 0 if d < 0, d / 0.25 if
\* 0 <= d < 0.25, and 1 if d >= 0.25.
GrowthFrameOpacity ==
    (page = "tree" /\ ran("animateGrowth") /\ sinceTrigger < duration)
    => \A i \in nonSapling :
          /\ particles[i].currentOpacity = referenceOpacity(waveDistance(i))
          /\ opacityArray[i] = referenceOpacity(waveDistance(i))

\* a growth frame in mid-growth with a particle inside the fade zone
GrowthFrameFading ==
    /\ page = "tree"
    /\ ran("animateGrowth")
    /\ sinceTrigger > 0
    /\ sinceTrigger < duration
    /\ \E i \in nonSapling :
          /\ RLt(Zero, waveDistance(i))
          /\ RLt(waveDistance(i), Rat(1, 4))
          /\ opacityArray[i] = particles[i].currentOpacity

\* the growth has ended: the forced value 1 everywhere, nothing pending
growthDone ==
    /\ page = "tree"
    /\ isGrown
    /\ particles # <<>>
    /\ allOpaque
    /\ ~pending("animateGrowth")

\* C8: A growth frame that observes progress 1 leaves every opacity at 1 and
\* no growth callback pending; from then on no step runs animateGrowth or
\* changes a particle opacity or an opacity buffer entry.
GrowthEnds ==
    /\ []((page = "tree" /\ ran("animateGrowth") /\ sinceTrigger >= duration)
            => allOpaque /\ ~pending("animateGrowth"))
    /\ [][growthDone
            => /\ "animateGrowth" \notin Range(taskLog')
               /\ opacityArray' = opacityArray
               /\ Len(particles') = Len(particles)
               /\ \A i \in 1..Len(particles) :
                     particles'[i].currentOpacity = particles[i].currentOpacity]_vars

\* a frame after the end of the growth moved the particles and ran no growth
\* step
FlowAfterGrowth ==
    /\ growthDone
    /\ lastTask("frame")
    /\ ran("updateFullTreeFlow")
    /\ ~ran("animateGrowth")

(***************************************************************************)
(* Properties: motion                                                      *)
(***************************************************************************)
\* C9: Motion modes are mutually exclusive and follow the growth state:
\* exactly one of saplingAnimationEnabled and flowAnimationEnabled is true,
\* saplingAnimationEnabled holds iff growth has not been triggered, and no
\* task runs both the sapling update and the full-flow update.
ExclusiveModes ==
    page = "tree"
    => /\ saplingAnimationEnabled # flowAnimationEnabled
       /\ saplingAnimationEnabled <=> ~triggered
       /\ ~(ran("updateSaplingAnimation") /\ ran("updateFullTreeFlow"))

\* a frame of the growing tree ran the full-flow update and not the sapling
\* update
FlowModeFrame ==
    /\ page = "tree"
    /\ triggered
    /\ lastTask("frame")
    /\ pending("animateGrowth")
    /\ ran("updateFullTreeFlow")
    /\ ~ran("updateSaplingAnimation")

\* C10: Baseline is write-once: once the particles exist, no step (sapling,
\* full-flow or logo frame, growth step, pointer event, trigger) changes the
\* originalX, originalY or originalZ of a particle.
BaselineWriteOnce ==
    [][particles # <<>>
         => /\ Len(particles') = Len(particles)
            /\ \A i \in 1..Len(particles) :
                  /\ particles'[i].originalX = particles[i].originalX
                  /\ particles'[i].originalY = particles[i].originalY
                  /\ particles'[i].originalZ = particles[i].originalZ]_vars

\* a frame has pushed a particle away from its baseline
PushedOffBaseline ==
    /\ page = "tree"
    /\ lastTask("frame")
    /\ ran("updateFullTreeFlow")
    /\ \E i \in 1..Len(particles) :
          /\ particles[i].windOffsetX # Zero
          /\ positionsArray[3 * i - 2] # particles[i].originalX
          /\ positionsArray[3 * i - 1] # particles[i].originalY

(***************************************************************************)
(* Properties: construction of the point cloud                             *)
(***************************************************************************)
\* the point cloud has been built
built == particleSystem # NULL

\* the buffer indices a pass over all the particles writes: i * 3, i * 3 + 1
\* and i * 3 + 2 of the code are 3i - 2, 3i - 1 and 3i here
positionWriteIndices ==
    { 3 * i - c : i \in 1..Len(particles), c \in 0..2 }
opacityWriteIndices == 1..Len(particles)

\* the tree page has an opacity buffer, the logo page has none
bufferShape ==
    /\ Len(positionsArray) = 3 * Len(particles)
    /\ page = "tree" => Len(opacityArray) = Len(particles)
    /\ positionWriteIndices \subseteq DOMAIN positionsArray
    /\ page = "tree" => opacityWriteIndices \subseteq DOMAIN opacityArray

\* C11: After the point cloud is built, the position buffer has length
\* 3 x particle count and the opacity buffer has length particle count in every
\* reachable state; no frame, growth step or event changes the particle count
\* or the length of a buffer, and every index a pass writes is inside them.
BufferShape ==
    /\ [](built => bufferShape)
    /\ [][built => /\ Len(particles') = Len(particles)
                   /\ Len(positionsArray') = Len(positionsArray)
                   /\ Len(opacityArray') = Len(opacityArray)]_vars

\* a frame after the trigger ran a growth step and a pass of the full flow
BuffersRewritten ==
    /\ page = "tree"
    /\ built
    /\ lastTask("frame")
    /\ ran("animateGrowth")
    /\ ran("updateFullTreeFlow")
    /\ Len(particles) > 1

(***************************************************************************)
(* Properties: the sampling loop                                           *)
(***************************************************************************)
\* the pixels of the canvas that are opaque enough and dark enough, by the
\* numbers: alpha > 128 and (r + g + b) / 3 < 128
darkOpaque(px) == px.alpha > 128 /\ px.r + px.g + px.b < 3 * 128
darkOpaquePixels == SelectSeq(canvasData, darkOpaque)

\* C12: Threshold correctness of the sampler: a sampled pixel produces a seed
\* iff alpha > 128 and (r+g+b)/3 < 128, so every run leaves exactly one seed
\* for each such pixel and none for a pixel with alpha <= 128 or brightness
\* >= 128; a pixel with alpha 255 and brightness 0 produces exactly one seed.
SamplerThreshold ==
    \A n \in 1..Len(sampleRuns) :
        /\ Len(sampleRuns[n]) = Len(darkOpaquePixels)
        /\ Len(canvasData) = 1 =>
               (Len(sampleRuns[n]) = 1 <=> darkOpaque(canvasData[1]))

\* a run kept a pixel just under the brightness threshold and dropped a
\* dark pixel whose alpha is the threshold value
ThresholdEdgeSampled ==
    /\ Len(sampleRuns) > 0
    /\ Len(canvasData) = 2
    /\ canvasData[1].alpha = 128
    /\ canvasData[1].r + canvasData[1].g + canvasData[1].b = 0
    /\ canvasData[2].alpha = 129
    /\ canvasData[2].r + canvasData[2].g + canvasData[2].b = 383
    /\ Len(sampleRuns[1]) = 1

\* C13: Seed coordinates: a sampled pixel at raster (x, y) on a W x H canvas
\* yields the seed (x - W/2, -(y - H/2)), seeds in the raster order of their
\* pixels; an image whose only dark opaque pixel is at the canvas centre,
\* sampled with stride 1, yields exactly one seed, at planar position (0, 0).
SeedCoordinates ==
    \A n \in 1..Len(sampleRuns) :
        /\ Len(sampleRuns[n]) = Len(darkOpaquePixels)
        /\ \A k \in 1..Len(sampleRuns[n]) :
               /\ RAdd(sampleRuns[n][k].x, Rat(canvasSize, 2))
                     = Whole(darkOpaquePixels[k].x)
               /\ RSub(Rat(canvasSize, 2), sampleRuns[n][k].y)
                     = Whole(darkOpaquePixels[k].y)
        /\ ( /\ Len(canvasData) = 1
             /\ darkOpaque(canvasData[1])
             /\ 2 * canvasData[1].x = canvasSize
             /\ 2 * canvasData[1].y = canvasSize )
           => /\ Len(sampleRuns[n]) = 1
              /\ sampleRuns[n][1].x = Zero
              /\ sampleRuns[n][1].y = Zero

\* a run on the tree canvas left the seed of the pixel (7, 0) in the top row
\* and the seed of the centre pixel
CornerAndCentreSeeds ==
    /\ page = "tree"
    /\ Len(sampleRuns) > 0
    /\ Len(sampleRuns[1]) = 2
    /\ sampleRuns[1][1].x = Whole(7 - 512)
    /\ sampleRuns[1][1].y = Whole(512)
    /\ sampleRuns[1][2].x = Zero
    /\ sampleRuns[1][2].y = Zero

\* the (x, y) of the seeds, in order
planar(seeds) == [k \in 1..Len(seeds) |-> <<seeds[k].x, seeds[k].y>>]

\* C14: Sampling determinism: two runs of the sampler on the same pixel data,
\* stride and thresholds leave the same number of seeds with the same (x, y)
\* in the same order, whatever random values are drawn; only z may differ.
SamplingDeterminism ==
    \A m, n \in 1..Len(sampleRuns) :
        planar(sampleRuns[m]) = planar(sampleRuns[n])

\* two runs on the same two dark pixels drew different depths
RunsDifferInDepth ==
    /\ Len(sampleRuns) = 2
    /\ Len(sampleRuns[1]) = 2
    /\ sampleRuns[1][1].z # sampleRuns[2][1].z
    /\ sampleRuns[1][2].z # sampleRuns[2][2].z

(***************************************************************************)
(* Properties: failures                                                    *)
(***************************************************************************)
\* createPointCloud has run on pixel data in which no pixel passes the test
emptySample == phase = "running" /\ darkOpaquePixels = <<>>

\* C15: Empty sample result: if no pixel passes the alpha/brightness test,
\* createPointCloud returns null without building particles, buffers or a
\* particle system; afterwards every frame callback and any growth trigger
\* completes (the frame asks for the next one, the trigger latches its flags)
\* without running a motion pass or a growth step and without writing a buffer.
EmptySampleInert ==
    emptySample =>
        /\ particleSystem = NULL
        /\ particles = <<>>
        /\ seedList = <<>>
        /\ positionsArray = <<>>
        /\ opacityArray = <<>>
        /\ ~ran("updateSaplingAnimation")
        /\ ~ran("updateFullTreeFlow")
        /\ ~ran("updateParticlePositions")
        /\ ~ran("animateGrowth")
        /\ ~pending("animateGrowth")
        /\ (lastTask("frame") \/ lastTask("load")) =>
               (ran("render") /\ rafQueue = <<"animate">>)
        /\ ran("growTree") => (isGrown /\ flowAnimationEnabled)

\* growth was triggered on a page whose image gave no seed, after a frame
TriggerOnEmptySample ==
    /\ emptySample
    /\ page = "tree"
    /\ frames > 0
    /\ lastTask("click")
    /\ ran("growTree")

\* C16: Image load failure: if the image decode fails, initialization of the
\* point cloud is aborted: createPointCloud is never called (no pixel data is
\* read, no seed is made), no particle store is built, the frame loop is not
\* started, and init ends there while the page goes on serving its events;
\* the point cloud is only ever built after the decode has resolved.
LoadFailureAborts ==
    /\ phase = "failed" =>
           /\ canvasData = <<>>
           /\ seedList = <<>>
           /\ particleSystem = NULL
           /\ particles = <<>>
           /\ positionsArray = <<>>
           /\ opacityArray = <<>>
           /\ rafQueue = <<>>
           /\ frames = 0
           /\ ~ran("render")
    /\ (built \/ canvasData # <<>>) => phase = "running"

\* the decode of the tree image failed, and the trigger box was clicked later
TriggerAfterLoadFailure ==
    /\ page = "tree"
    /\ phase = "failed"
    /\ ticks > 0
    /\ lastTask("click")
    /\ ran("growTree")

\* the seed lists the sampling loop can leave for the pixel data that was read
sampledSeedLists ==
    { samplePositions(canvasData, rz) :
        rz \in [1..Len(sampledPixels(canvasData)) -> RandZ] }
\* the same lists after a pass that returned normally
withRoots(lists) ==
    UNION { { seeds \o ext : ext \in RootOutcomes(seeds) } : seeds \in lists }
withBranches(lists) ==
    UNION { { seeds \o ext : ext \in BranchOutcomes(seeds) } : seeds \in lists }

\* C17: Extension failure containment: if extendRoots or extendBranches
\* throws, the exception is caught inside createPointCloud, the seed list
\* holds exactly the seeds it held before that pass (no particle of the failed
\* pass), the other pass still runs, and the particle store is still built
\* from the remaining seeds.
ExtensionFailureContained ==
    (page = "tree" /\ lastTask("load")
        /\ (ran("roots failed") \/ ran("branches failed"))) =>
        /\ ran("extendRoots")
        /\ ran("extendBranches")
        /\ ran("roots failed") /\ ran("branches failed")
              => seedList \in sampledSeedLists
        /\ ran("roots failed") /\ ~ran("branches failed")
              => seedList \in withBranches(sampledSeedLists)
        /\ ~ran("roots failed") /\ ran("branches failed")
              => seedList \in withRoots(sampledSeedLists)
        /\ built
        /\ Len(particles) = Len(seedList)
        /\ \A i \in 1..Len(particles) :
              particles[i].originalX = RMul(seedList[i].x, CONFIG.tree.displayScale)
        /\ ran("render")

\* the root pass failed, the branch pass ran, and the store was built from
\* the four sampled seeds
RootPassFailed ==
    /\ page = "tree"
    /\ lastTask("load")
    /\ ran("roots failed")
    /\ ~ran("branches failed")
    /\ built
    /\ Len(particles) = 4

(***************************************************************************)
(* Properties: root extension                                              *)
(***************************************************************************)
\* extendRoots has returned
rootsReturned == rootRun.calls = <<>> /\ rootRun.left = 0

\* C18: Bounded root extension: for any non-empty input seed set and any
\* outcome of the random choices, extendRoots returns at most 100,000
\* particles (newParticles never holds more at any point of the run).
RootParticlesBounded == rootRun.newParticles <= 100000

\* extendRoots returned after fifty starting points that all branched into
\* three sub-roots of the greatest length
LargestRootSystem ==
    /\ rootsReturned
    /\ rootRun.rootStarts > maxRootStarts
    /\ rootRun.newParticles
         = maxRootStarts * (branchParticles[One, Rat(999, 1000)]
                              + 3 * branchParticles[Rat(6, 10), Rat(999, 1000)])

\* the call createRootBranch enters next
enteredCall == Head(rootRun.calls)

RECURSIVE SeqSum(_)
SeqSum(q) == IF q = <<>> THEN 0 ELSE Head(q) + SeqSum(Tail(q))

\* an upper bound of the branch bodies still to run: one per pending call,
\* three more for a pending call at depth 0, four per starting point not
\* yet taken
bodiesToRun(run) ==
    4 * run.left
      + SeqSum([k \in 1..Len(run.calls) |->
                   IF run.calls[k].depth = 0 THEN 4 ELSE 1])

\* the step ran a call that made child calls: they are in front of the calls
\* that were pending behind it
madeChildCalls ==
    /\ Len(rootRun'.calls) >= Len(rootRun.calls)
    /\ rootRun'.left = rootRun.left
childCallsMade == Len(rootRun'.calls) - (Len(rootRun.calls) - 1)

\* C19: Root recursion is bounded and terminates: createRootBranch is never
\* entered with depth > 2 and pushes particles only at depth 0 or 1; child
\* calls are made only by a branch below the depth cap, 2 or 3 of them, one
\* level deeper and with thickness x 0.6; every step of a run of extendRoots
\* lowers the number of branch bodies that can still run, so the run ends,
\* with at most 50 starting points and at most 1 + 3 branch bodies for each.
RootRecursionBounded ==
    /\ [](/\ \A k \in 1..Len(rootRun.calls) : rootRun.calls[k].depth <= 2
          /\ limitRootStarts(rootRun.rootStarts) - rootRun.left <= 50
          /\ rootRun.left >= 0
          /\ rootRun.bodies <= 1 + 3)
    /\ [][/\ (rootRun'.newParticles > rootRun.newParticles
                 => enteredCall.depth \in {0, 1})
           /\ (madeChildCalls =>
                 /\ enteredCall.depth < 2
                 /\ childCallsMade \in {2, 3}
                 /\ \A k \in 1..childCallsMade :
                       /\ rootRun'.calls[k].depth = enteredCall.depth + 1
                       /\ rootRun'.calls[k].thickness
                             = RMul(enteredCall.thickness, Rat(6, 10)))
           /\ bodiesToRun(rootRun') < bodiesToRun(rootRun)]_rootRun

\* extendRoots returned: it took fifty of the starting points it was given
\* and the last one ran four branch bodies
FiftyRootsReturned ==
    /\ rootsReturned
    /\ rootRun.rootStarts > maxRootStarts
    /\ rootRun.bodies = 4
    /\ rootRun.newParticles > 0

(***************************************************************************)
(* Properties: the wind offset after the pointer has left                  *)
(***************************************************************************)
RAbs(a) == <<Abs(a[1]), a[2]>>
Ceiling(a) == 0 - ((0 - a[1]) \div a[2])
RECURSIVE RPow(_, _)
RPow(a, n) == IF n = 0 THEN One ELSE RMul(a, RPow(a, n - 1))

\* the radius of the pointer's force and the return speed of the page
interactionRadius ==
    IF page = "tree" THEN CONFIG.tree.slashWidth ELSE CONFIG.logo.mouseWindRadius
returnSpeed ==
    IF page = "tree" THEN CONFIG.tree.windReturnSpeed
    ELSE CONFIG.logo.windReturnSpeed

\* the particles the frame that has just run has animated
animatedIn(log, parts) ==
    IF "updateParticlePositions" \in Range(log)
         \/ "updateFullTreeFlow" \in Range(log)
    THEN 1..Len(parts)
    ELSE IF "updateSaplingAnimation" \in Range(log) THEN saplingIndices(parts)
    ELSE {}

\* the baseline of the particle is farther from the pointer than the radius
farFromPointer(particle) ==
    RLt(interactionRadius, distanceToMouse(particle))

\* the offset after is the offset before x (1 - windReturnSpeed): no larger
\* in magnitude, and smaller unless it was 0
relaxed(before, after) ==
    /\ after = RMul(before, RSub(One, returnSpeed))
    /\ RSub(RAbs(after), RAbs(before))[1] <= 0
    /\ before # Zero => RSub(RAbs(after), RAbs(before))[1] < 0

\* every frame so far has animated the particle
animatedSoFar(particle) ==
    page = "logo" \/ (particle.isSaplingParticle /\ ~isGrown)

\* a number of frames after which an offset that started at start is within
\* eps of 0: (1 - s)^n <= 1 / (1 + n s)
framesToWithin(start, eps) ==
    Ceiling(RDiv(RSub(RDiv(RAbs(start), eps), One), returnSpeed))

\* the distances from 0 the offsets are measured against
Epsilons == {Whole(15), Whole(18)}

withinAfter(offset, start) ==
    /\ offset = RMul(start, RPow(RSub(One, returnSpeed), frames))
    /\ \A eps \in Epsilons :
          frames >= framesToWithin(start, eps) => RLe(RAbs(offset), eps)

\* C20: force relaxation: in every frame, an animated particle whose
\* baseline is farther from the pointer than the interaction radius
\* (slashWidth in the tree, mouseWindRadius in the logo) has windOffsetX and
\* windOffsetY replaced by the offset x (1 - windReturnSpeed), so that the
\* magnitude never increases and strictly decreases while it is not 0; and
\* after a number of such frames bounded in terms of the starting offset and
\* windReturnSpeed the offset is within epsilon of 0.
ForceRelaxation ==
    /\ [][frames' # frames =>
            \A i \in animatedIn(taskLog', particles) :
               farFromPointer(particles[i]) =>
                  /\ relaxed(particles[i].windOffsetX, particles'[i].windOffsetX)
                  /\ relaxed(particles[i].windOffsetY,
                             particles'[i].windOffsetY)]_vars
    /\ [](\A i \in 1..Len(particles) :
             (animatedSoFar(particles[i]) /\ farFromPointer(particles[i])) =>
                \E start \in StartOffsets :
                   /\ withinAfter(particles[i].windOffsetX, start.x)
                   /\ withinAfter(particles[i].windOffsetY, start.y))

\* three frames after the pointer left the tree, a particle of the sapling
\* that it had pushed by 20 is still off its baseline, by less than 15
RelaxedWithinEpsilon ==
    /\ page = "tree"
    /\ frames = 3
    /\ ran("updateSaplingAnimation")
    /\ \E i \in saplingIndices(particles) :
          /\ farFromPointer(particles[i])
          /\ particles[i].windOffsetX
                = RMul(Whole(20), RPow(RSub(One, returnSpeed), 3))
          /\ RLt(Zero, particles[i].windOffsetX)
          /\ RLt(particles[i].windOffsetX, Whole(15))

(***************************************************************************)
(* Properties: the pointer                                                 *)
(***************************************************************************)
\* the step is a display refresh that directly follows another one: no
\* mousemove event lies between the two frames
stationaryFrame == page = "tree" /\ lastTask("frame") /\ frames' # frames

\* C21: stationary pointer relaxes the force: in the tree, in every frame
\* during which the pointer is stationary (no mousemove since the previous
\* frame), windOffsetX and windOffsetY of each animated particle are relaxed
\* toward 0 at windReturnSpeed, also inside the slash radius and whatever
\* the pointer's earlier motion was.
StationaryPointerRelaxes ==
    [][stationaryFrame =>
          \A i \in animatedIn(taskLog', particles) :
             /\ particles'[i].windOffsetX = relax(particles[i].windOffsetX)
             /\ particles'[i].windOffsetY = relax(particles[i].windOffsetY)]_vars

\* no mousemove event has arrived: the pointer variables are as declared
pointerNeverMoved ==
    /\ mouseX = 0
    /\ mouseY = 0
    /\ prevMouseX = 0
    /\ prevMouseY = 0
    /\ mouseVelocityX = 0
    /\ mouseVelocityY = 0

\* C22: if the pointer never moves after initialization and lies farther
\* than the interaction radius from every particle baseline, windOffsetX and
\* windOffsetY of every particle are 0 in every reachable state, before and
\* after the growth trigger.
RestingPointerNoForce ==
    (pointerNeverMoved
       /\ \A i \in 1..Len(particles) : farFromPointer(particles[i]))
    => \A i \in 1..Len(particles) :
          /\ particles[i].windOffsetX = Zero
          /\ particles[i].windOffsetY = Zero

\* the pointer has not moved and is far from every particle of the grown
\* tree, which the full flow has moved in the last of its frames
FlowedUnderRestingPointer ==
    /\ page = "tree"
    /\ pointerNeverMoved
    /\ isGrown
    /\ frames = 2
    /\ ran("updateFullTreeFlow")
    /\ Len(particles) > 0
    /\ \A i \in 1..Len(particles) : farFromPointer(particles[i])

(***************************************************************************)
(* Properties: who writes the particles and the buffers                    *)
(***************************************************************************)
\* the task has run one of the loops that write particle fields and buffers
writePassRan ==
    \/ ran("animateGrowth")
    \/ ran("updateSaplingAnimation")
    \/ ran("updateFullTreeFlow")
    \/ ran("updateParticlePositions")

\* the step is the task name
taskStep(name) == taskLog' # <<>> /\ Head(taskLog') = name

\* C23: single writer: every write to particle state (opacity, wind and
\* flow offsets) and to the position and opacity buffers happens inside a
\* per-frame callback run by the display refresh (the first animate() call
\* of init counted with them); the input event handlers (mousemove, trigger
\* click) write only pointer and growth-flag variables.
SingleWriter ==
    writePassRan => (lastTask("frame") \/ lastTask("load"))

\* C23, amended: the loops that write particle fields and buffers run in the
\* frame callbacks, in init's first animate() call and in the first trigger
\* click, whose growTree calls animateGrowth itself; that click writes only
\* currentOpacity and the opacity buffer; the other handlers (mousemove,
\* later clicks, key or click toggle, removal timeout) write no particle
\* field and no buffer.
WritersByTask ==
    /\ [](writePassRan =>
            (lastTask("frame") \/ lastTask("load") \/ lastTask("click")))
    /\ [](lastTask("click") =>
            /\ ~ran("updateSaplingAnimation")
            /\ ~ran("updateFullTreeFlow")
            /\ ran("animateGrowth") => ran("growTree"))
    /\ [][(taskStep("mousemove") \/ taskStep("toggle") \/ taskStep("timeout"))
            => UNCHANGED <<particles, positionsArray, opacityArray>>]_vars
    /\ [][taskStep("click") =>
            /\ positionsArray' = positionsArray
            /\ Len(particles') = Len(particles)
            /\ \A i \in 1..Len(particles) :
                  particles'[i] =
                     [particles[i] EXCEPT
                        !.currentOpacity = particles'[i].currentOpacity]]_vars

\* the trigger click has run animateGrowth over the particles of the tree
ClickWroteOpacities ==
    /\ lastTask("click")
    /\ ran("growTree")
    /\ ran("animateGrowth")
    /\ Len(particles) > 0
    /\ Len(opacityArray) = Len(particles)

(***************************************************************************)
(* Properties: the order of update and render                              *)
(***************************************************************************)
WritePasses ==
    {"animateGrowth", "updateSaplingAnimation", "updateFullTreeFlow",
     "updateParticlePositions"}
MotionPasses ==
    {"updateSaplingAnimation", "updateFullTreeFlow", "updateParticlePositions"}

\* the places of the task at which fn ran
placesOf(fn) == { k \in DOMAIN taskLog : taskLog[k] = fn }

\* C24: update-then-render ordering: in every frame, all buffer writes made
\* for that frame (position writes by the motion update, opacity writes by
\* the growth step) complete before the render call of that frame, and no
\* buffer write occurs between a frame's render call and the start of the
\* next frame's update.
UpdateThenRender ==
    /\ (lastTask("frame") \/ lastTask("load")) =>
          \A r \in placesOf("render") :
             \A k \in DOMAIN taskLog : k > r => taskLog[k] \notin WritePasses
    /\ ~(lastTask("frame") \/ lastTask("load")) => ~writePassRan

\* C24, amended: in every frame the position writes of the motion update
\* complete before the one render call of animate; the opacity writes of the
\* growth step are made by a callback of its own, which the display refresh
\* runs after animate, so they follow the render call of their frame; and
\* between two frames the only buffer write is that of the first trigger
\* click.
FrameOrder ==
    /\ (lastTask("frame") \/ lastTask("load")) =>
          /\ Cardinality(placesOf("render")) = 1
          /\ \A k \in DOMAIN taskLog :
                /\ taskLog[k] \in MotionPasses =>
                      \A r \in placesOf("render") : k < r
                /\ taskLog[k] = "animateGrowth" =>
                      \A r \in placesOf("render") : r < k
    /\ ~(lastTask("frame") \/ lastTask("load")) =>
          /\ \A k \in DOMAIN taskLog : taskLog[k] \notin MotionPasses
          /\ ran("animateGrowth") => (lastTask("click") /\ ran("growTree"))

\* a frame of the growing tree: the flow wrote the positions, the scene was
\* rendered, then the growth step wrote the opacities
GrowthStepAfterRender ==
    /\ page = "tree"
    /\ frames > 0
    /\ Len(particles) > 0
    /\ taskLog = <<"frame", "updateFullTreeFlow", "render", "animateGrowth">>

(***************************************************************************)
(* Properties: growth order                                                *)
(***************************************************************************)
\* C25: for every particle built from any seed (sampled pixel, root
\* extension or branch extension), growthOrder = 0.6 x normalizedHeight
\* + 0.4 x normalizedDistance lies in the closed interval [0, 1].
GrowthOrderInRange ==
    page = "tree" =>
       \A i \in 1..Len(particles) :
          /\ RLe(Zero, particles[i].growthOrder)
          /\ RLe(particles[i].growthOrder, One)

(***************************************************************************)
(* Properties: growth and the frame rate                                   *)
(***************************************************************************)
\* the opacity of a particle as a function of the time t since the trigger
opacityAt(particle, t) ==
    IF particle.isSaplingParticle \/ t >= duration THEN One
    ELSE referenceOpacity(RSub(RMul(Rat(t, duration), Rat(5, 4)),
                               particle.growthOrder))

\* C26: frame-rate independence of growth: the opacity every particle has
\* after a growth step executed at elapsed time t since the trigger depends
\* only on t, growthDuration, the particle's growthOrder and its sapling
\* flag, not on how many growth steps ran before or when they ran; runs
\* with different frame schedules agree at any common elapsed time.
FrameRateIndependence ==
    (page = "tree" /\ ran("animateGrowth")) =>
       \A i \in 1..Len(particles) :
          /\ particles[i].currentOpacity = opacityAt(particles[i], sinceTrigger)
          /\ opacityArray[i] = opacityAt(particles[i], sinceTrigger)

\* half the growth time has passed and the second growth frame has run: a
\* particle is part-way through its fade
SecondGrowthFrameFading ==
    /\ page = "tree"
    /\ lastTask("frame")
    /\ ran("animateGrowth")
    /\ frames = 2
    /\ sinceTrigger = TickMs
    /\ \E i \in 1..Len(particles) :
          /\ RLt(Zero, opacityArray[i])
          /\ RLt(opacityArray[i], One)

(***************************************************************************)
(* Properties: the slash force                                             *)
(***************************************************************************)
\* the pointer's direction of motion in world coordinates: the unit vector
\* of the velocity, with the Y axis flipped as for the pointer position
worldDirX == RDiv(Whole(mouseVelocityX), velocityMag)
worldDirY == RNeg(RDiv(Whole(mouseVelocityY), velocityMag))

\* (1 - distance / slashWidth) x slashStrength
pushStrength(particle) ==
    RMul(RSub(One, RDiv(distanceToMouse(particle), CONFIG.tree.slashWidth)),
         CONFIG.tree.slashStrength)

\* the offset moved toward the target by the fraction slashSmoothness
blended(offset, target) ==
    RAdd(offset, RMul(RSub(target, offset), CONFIG.tree.slashSmoothness))

\* the particle is in the slash zone of a moving pointer
slashed(particle) ==
    /\ RLt(distanceToMouse(particle), CONFIG.tree.slashWidth)
    /\ RLt(Rat(1, 2), velocityMag)

\* C27: slash push direction: in the tree, when a particle's baseline is
\* within slashWidth of the pointer's world position and the pointer speed
\* exceeds 0.5, the push target points along the pointer's direction of
\* motion expressed in world coordinates (screen-centred, Y flipped), with
\* magnitude (1 - distance / slashWidth) x slashStrength, and windOffset
\* moves toward it by the fraction slashSmoothness.
SlashPushDirection ==
    [][(page = "tree" /\ frames' # frames) =>
          \A i \in animatedIn(taskLog', particles) :
             slashed(particles[i]) =>
                /\ particles'[i].windOffsetX =
                      blended(particles[i].windOffsetX,
                              RMul(worldDirX, pushStrength(particles[i])))
                /\ particles'[i].windOffsetY =
                      blended(particles[i].windOffsetY,
                              RMul(worldDirY, pushStrength(particles[i])))]_vars

(***************************************************************************)
(* Properties: the displayed position                                      *)
(***************************************************************************)
\* the particles the task in the log has moved
animatedNow == animatedIn(taskLog, particles)

\* the entries of particle i in the position buffer
shownX(i) == positionsArray[3 * i - 2]
shownY(i) == positionsArray[3 * i - 1]
shownZ(i) == positionsArray[3 * i]

\* the argument of the sine of the float term: time x speedMultiplier + phase
floatAngle(particle) ==
    RAdd(RMul(Whole(animationTime), particle.speedMultiplier), particle.phaseY)

\* angles strictly between 0 and 3 < pi, where the sine is not 0
sineNotZero(angle) == RLt(Zero, angle) /\ RLt(angle, Whole(3))

wrapped(offset) ==
    IF RLe(CONFIG.tree.flowHeight, RAdd(offset, CONFIG.tree.flowSpeed))
    THEN Zero
    ELSE RAdd(offset, CONFIG.tree.flowSpeed)

\* C29: upward flow wrap: each frame update of an animated tree particle
\* adds flowSpeed to flowOffset and resets it to 0 (redrawing driftX and
\* driftZ) as soon as it is >= flowHeight; hence 0 <= flowOffset <
\* flowHeight for every particle in every reachable state, and driftX and
\* driftZ change only on a reset.
FlowWraps ==
    /\ [](page = "tree" =>
            \A i \in 1..Len(particles) :
               /\ RLe(Zero, particles[i].flowOffset)
               /\ RLt(particles[i].flowOffset, CONFIG.tree.flowHeight))
    /\ [][(page = "tree" /\ Len(particles) > 0) =>
            /\ Len(particles') = Len(particles)
            /\ \A i \in 1..Len(particles) :
                  /\ particles'[i].flowOffset =
                        IF i \in animatedIn(taskLog', particles)
                        THEN wrapped(particles[i].flowOffset)
                        ELSE particles[i].flowOffset
                  /\ (particles'[i].driftX # particles[i].driftX
                        \/ particles'[i].driftZ # particles[i].driftZ)
                     => /\ i \in animatedIn(taskLog', particles)
                        /\ RLe(CONFIG.tree.flowHeight,
                               RAdd(particles[i].flowOffset,
                                    CONFIG.tree.flowSpeed))
                        /\ particles'[i].flowOffset = Zero]_vars

\* a frame of the tree has sent one particle back to the bottom with a new
\* drift and has raised another by flowSpeed
ResetAndRisen ==
    /\ page = "tree"
    /\ lastTask("frame")
    /\ \E i \in animatedNow :
          /\ particles[i].flowOffset = Zero
          /\ particles[i].driftX = newDrift(Rat(3, 4))
    /\ \E j \in animatedNow :
          particles[j].flowOffset = CONFIG.tree.flowSpeed

(***************************************************************************)
(* Properties: the pointer tracker                                         *)
(***************************************************************************)
\* C30: pointer tracker: after every mousemove event of the tree page the
\* previous position is the current position from before the event, the
\* current position is the event's coordinates and velocity = current -
\* previous; the velocity is written only by mousemove events, once per
\* event, and by nothing else.
PointerTracker ==
    /\ [](page = "tree" =>
            /\ mouseVelocityX = mouseX - prevMouseX
            /\ mouseVelocityY = mouseY - prevMouseY)
    /\ [][(page = "tree" /\ taskStep("mousemove")) =>
            /\ prevMouseX' = mouseX
            /\ prevMouseY' = mouseY
            /\ <<mouseX', mouseY'>> \in MousePoints
            /\ mouseVelocityX' = mouseX' - mouseX
            /\ mouseVelocityY' = mouseY' - mouseY]_vars
    /\ [][(mouseVelocityX' # mouseVelocityX \/ mouseVelocityY' # mouseVelocityY
             \/ prevMouseX' # prevMouseX \/ prevMouseY' # prevMouseY)
            => (page = "tree" /\ taskStep("mousemove"))]_vars

\* the second mousemove event at the same place: the previous position has
\* caught up and the velocity is back to 0, with frames in between
PointerCameToRest ==
    /\ page = "tree"
    /\ lastTask("mousemove")
    /\ mouseX = 512
    /\ prevMouseX = 512
    /\ mouseY = 384
    /\ prevMouseY = 384
    /\ mouseVelocityX = 0
    /\ mouseVelocityY = 0
    /\ frames > 0

(***************************************************************************)
(* Properties: the sapling frame                                           *)
(***************************************************************************)
\* the motion fields of a particle
motionFields(particle) ==
    <<particle.flowOffset, particle.driftX, particle.driftZ,
      particle.windOffsetX, particle.windOffsetY>>

\* C31: sapling-mode frame effect: a frame executed before the growth
\* trigger leaves unchanged, for every non-sapling particle, its three
\* position-buffer entries and its flowOffset, driftX, driftZ, windOffsetX
\* and windOffsetY; only sapling particles move.
SaplingFrameEffect ==
    [][(page = "tree" /\ ~isGrown /\ frames' # frames) =>
          /\ Len(particles') = Len(particles)
          /\ Len(positionsArray') = Len(positionsArray)
          /\ \A i \in nonSapling :
                /\ motionFields(particles'[i]) = motionFields(particles[i])
                /\ \A k \in (3 * i - 2)..(3 * i) :
                      positionsArray'[k] = positionsArray[k]]_vars

\* a frame before the trigger has moved the sapling of a tree that has
\* other particles too
SaplingFrameRan ==
    /\ page = "tree"
    /\ ~isGrown
    /\ frames > 0
    /\ lastTask("frame")
    /\ ran("updateSaplingAnimation")
    /\ nonSapling # {}
    /\ saplingIndices(particles) # {}

(***************************************************************************)
(* Properties: the depth of a seed                                         *)
(***************************************************************************)
\* the seeds of all runs of the sampling loop
sampledSeeds ==
    UNION { { sampleRuns[r][k] : k \in 1..Len(sampleRuns[r]) } :
              r \in 1..Len(sampleRuns) }

depthRange ==
    IF page = "tree" THEN CONFIG.tree.depthRange ELSE CONFIG.logo.depthRange

\* C32: seed depth: for every sampled seed, z = u x depthRange with u drawn
\* from the full interval (-0.5, 0.5) independently of the seed's position,
\* so that every value of the interval is possible at every height, and
\* |z| <= depthRange / 2 always.
SeedDepthUniform ==
    \A seed \in sampledSeeds :
       /\ seed.z \in { RMul(RSub(rz, Rat(1, 2)), depthRange) : rz \in ProbeRandZ }
       /\ RLe(RAbs(seed.z), RDiv(depthRange, Whole(2)))

\* the share of the depth range a tree seed of height y keeps: all of it in
\* the lowest 15% of the image, 0.4 up to 30%, 0.18 up to the middle and
\* 0.12 above
depthShare(y) ==
    IF page = "logo" THEN One
    ELSE IF RLe(y, Rat(0 - 3584, 10)) THEN One
    ELSE IF RLe(y, Rat(0 - 2048, 10)) THEN Rat(4, 10)
    ELSE IF RLe(y, Zero) THEN Rat(18, 100)
    ELSE Rat(12, 100)

\* C32, amended: for every sampled seed, z = u x depthRange x share with u
\* drawn from [-0.5, 0.5); in the logo the share is 1 at every position; in
\* the tree it depends on the seed's height (1, 0.4, 0.18 or 0.12 from the
\* bottom up), so that |z| <= share x depthRange / 2 <= depthRange / 2.
SeedDepth ==
    \A seed \in sampledSeeds :
       /\ seed.z \in { RMul(RMul(RSub(rz, Rat(1, 2)), depthRange),
                            depthShare(seed.y)) : rz \in ProbeRandZ }
       /\ RLe(RAbs(seed.z),
              RMul(depthShare(seed.y), RDiv(depthRange, Whole(2))))
       /\ RLe(RAbs(seed.z), RDiv(depthRange, Whole(2)))

\* a run over a tree image has left a seed in the top row and one at the
\* centre, both with the draw 0: they lie at different depths
DepthNarrowsWithHeight ==
    /\ page = "tree"
    /\ \E r \in 1..Len(sampleRuns) :
          /\ Len(sampleRuns[r]) = 2
          /\ sampleRuns[r][1].y = Whole(512)
          /\ sampleRuns[r][1].z = Rat(0 - 3, 2)
          /\ sampleRuns[r][2].y = Zero
          /\ sampleRuns[r][2].z = Rat(0 - 9, 4)

(***************************************************************************)
(* Properties: branch extension                                            *)
(***************************************************************************)
\* the passes of the inner loop that can still run, counting 20 for each
\* tip that has not been started
passesToRun(run) == 20 * run.tips + (run.segments + 1 - run.i)

\* C33: branch extension never recurses and is sparse: extendBranches calls
\* neither itself nor createRootBranch; for each extended tip it walks a
\* bounded number of steps (floor(length / 3) with length in [30, 60), that
\* is 10 to 19), emits at most one particle per step, and terminates for
\* every input: each step lowers the number of passes that can still run.
BranchExtensionBounded ==
    /\ [](/\ branchRun.entered = 1
          /\ rootRun = NoRootRun
          /\ branchRun.segments = 0 \/ branchRun.segments \in 10..19
          /\ branchRun.steps <= branchRun.segments
          /\ branchRun.i = branchRun.steps + 1
          /\ passesToRun(branchRun) >= 0)
    /\ [][/\ branchRun'.newParticles - branchRun.newParticles \in {0, 1}
           /\ branchRun'.newParticles > branchRun.newParticles
                 => branchRun'.steps = branchRun.steps + 1
           /\ branchRun'.entered = branchRun.entered
           /\ passesToRun(branchRun') < passesToRun(branchRun)]_branchRun

\* extendBranches has walked the last of three tips to the end of a longest
\* extension and has pushed particles
LongestExtensionWalked ==
    /\ branchRun.entered = 1
    /\ branchRun.tips = 0
    /\ branchRun.segments = 19
    /\ branchRun.steps = 19
    /\ branchRun.newParticles > 2

(***************************************************************************)
(* Properties: sapling selection                                           *)
(***************************************************************************)
\* minY + 0.45 x (maxY - minY) and the start of the taper zone, over the seeds
saplingCutoff == RAdd(minY(seedList), RMul(Rat(45, 100), treeHeight(seedList)))
taperStart ==
    RAdd(minY(seedList),
         RMul(RMul(Rat(45, 100), Rat(7, 10)), treeHeight(seedList)))

\* the seeds at or below the sapling cutoff, and the sapling particles
lowSeeds == { i \in 1..Len(seedList) : RLe(seedList[i].y, saplingCutoff) }
saplingParticles == { i \in 1..Len(particles) : particles[i].isSaplingParticle }

\* the extension of particle i: its baseline height, taken back to the scale
\* of the seeds, less the height of its seed
baselineExtension(i) ==
    RSub(RDiv(particles[i].originalY, CONFIG.tree.displayScale), seedList[i].y)

\* (y - taperStart) / (cutoff - taperStart) for seed i
taperProgressOf(i) ==
    RDiv(RSub(seedList[i].y, taperStart), RSub(saplingCutoff, taperStart))

logoUpdateStep ==
    /\ page = "logo"
    /\ frames' # frames \/ phase' # phase
    /\ "updateParticlePositions" \in Range(taskLog')

\* the wind offset of particle i before the step: 0 for a particle the step
\* has created
windBefore(i, axis) ==
    IF i \in DOMAIN particles
    THEN (IF axis = "x" THEN particles[i].windOffsetX
          ELSE particles[i].windOffsetY)
    ELSE Zero

\* distance of the baseline of a logo particle from the pointer
pointerDistance(particle) ==
    RSqrt(RAdd(RSquare(RSub(particle.originalX, mouseWorldX)),
               RSquare(RSub(particle.originalY, mouseWorldY))))

\* (1 - distance / mouseWindRadius) x mouseWindStrength
pushMagnitude(particle) ==
    RMul(RSub(One, RDiv(pointerDistance(particle), CONFIG.logo.mouseWindRadius)),
         CONFIG.logo.mouseWindStrength)

\* the vector that points from the pointer to the baseline of the particle
\* and has the magnitude of the push
awayFromPointer(particle, axis) ==
    RMul(RDiv(IF axis = "x" THEN RSub(particle.originalX, mouseWorldX)
              ELSE RSub(particle.originalY, mouseWorldY),
              pointerDistance(particle)),
         pushMagnitude(particle))

\* an offset moved from before toward target by the share 0.15
movedToward(before, target) ==
    RAdd(before, RMul(Rat(15, 100), RSub(target, before)))

\* the vector the step has moved the offset of particle i toward by the
\* share 0.15
pushTarget(i, axis) ==
    LET after == IF axis = "x" THEN particles'[i].windOffsetX
                 ELSE particles'[i].windOffsetY
    IN  RAdd(windBefore(i, axis),
             RDiv(RSub(after, windBefore(i, axis)), Rat(15, 100)))

\* C35: logo variant push: on every frame, a logo particle whose baseline is
\* within mouseWindRadius of the pointer moves its wind offset toward a
\* vector pointing radially away from the pointer (where the pointer is not
\* on the baseline itself and a direction away from it exists) with
\* magnitude (1 - distance / mouseWindRadius) x mouseWindStrength, whether
\* or not the pointer is moving; the logo update applies no upward flow (the
\* height written is the baseline plus the float term plus the wind offset)
\* and never changes a particle's z entry from its baseline z.
LogoPush ==
    [][logoUpdateStep =>
         \A i \in DOMAIN particles' :
            /\ RLt(pointerDistance(particles'[i]), CONFIG.logo.mouseWindRadius)
                  => RAdd(RSquare(pushTarget(i, "x")),
                          RSquare(pushTarget(i, "y")))
                       = RSquare(pushMagnitude(particles'[i]))
            /\ (/\ RLt(Zero, pointerDistance(particles'[i]))
                /\ RLt(pointerDistance(particles'[i]),
                       CONFIG.logo.mouseWindRadius))
                  => /\ particles'[i].windOffsetX
                          = movedToward(windBefore(i, "x"),
                                        awayFromPointer(particles'[i], "x"))
                     /\ particles'[i].windOffsetY
                          = movedToward(windBefore(i, "y"),
                                        awayFromPointer(particles'[i], "y"))
            /\ "flowOffset" \notin DOMAIN particles'[i]
            /\ \E sinY \in TrigValues :
                  positionsArray'[3 * i - 1]
                    = RAdd(RAdd(particles'[i].originalY,
                                RMul(sinY, CONFIG.logo.floatAmount)),
                           particles'[i].windOffsetY)
            /\ positionsArray'[3 * i] = particles'[i].originalZ
            /\ particles'[i].originalZ = seedList'[i].z]_vars

\* two frames have pushed a logo particle away from a pointer that lies
\* within the radius: its offset is the share 1 - 0.85 x 0.85 of the vector
LogoPushedTwice ==
    /\ page = "logo"
    /\ frames = 2
    /\ \E i \in DOMAIN particles :
          /\ RLt(Zero, pointerDistance(particles[i]))
          /\ RLt(pointerDistance(particles[i]), CONFIG.logo.mouseWindRadius)
          /\ particles[i].windOffsetX
               = RMul(Rat(111, 400), awayFromPointer(particles[i], "x"))
          /\ particles[i].windOffsetY
               = RMul(Rat(111, 400), awayFromPointer(particles[i], "y"))
          /\ positionsArray[3 * i] = particles[i].originalZ

(***************************************************************************)
(* Properties: the size of the force offset                                *)
(***************************************************************************)
\* the configured push strength of the page
configuredStrength ==
    IF page = "tree" THEN CONFIG.tree.slashStrength
    ELSE CONFIG.logo.mouseWindStrength

\* C36: bounded force offset: in every reachable state, for every particle,
\* |windOffsetX| and |windOffsetY| are at most the configured push strength
\* (slashStrength in the tree variant, mouseWindStrength in the logo
\* variant), for any sequence of pointer events and frames.
BoundedForceOffset ==
    \A i \in DOMAIN particles :
       /\ RLe(RAbs(particles[i].windOffsetX), configuredStrength)
       /\ RLe(RAbs(particles[i].windOffsetY), configuredStrength)

\* two frames have pushed a particle of the tree: its offset is more than
\* a quarter of the strength a particle under the pointer is pushed with
TreeOffsetBuiltUp ==
    /\ page = "tree"
    /\ frames = 2
    /\ \E i \in DOMAIN particles :
          RLt(RMul(Rat(1, 4), configuredStrength),
              RSqrt(RAdd(RSquare(particles[i].windOffsetX),
                         RSquare(particles[i].windOffsetY))))

(***************************************************************************)
(* Properties: the preload of the home page                                *)
(***************************************************************************)
\* a step posts an ACK for a chunk only as the handler that awaited the
\* store of that chunk goes on after it was stored
ackingStep ==
    \A k \in Chunks :
       preload'.acks[k] # preload.acks[k]
         => /\ k \in preload.storing
            /\ k \in preload'.stored
            /\ k \notin preload.rejected

\* a step terminates the worker only as it handles PROCESSING_COMPLETE
terminatingStep ==
    (preload'.worker = "terminated" /\ preload.worker # "terminated")
      => /\ preload.inbox # <<>>
         /\ Head(preload.inbox).type = "PROCESSING_COMPLETE"

\* C37: preload ACK ordering: for every CHUNK_READY message received from
\* the worker, the ACK_CHUNK reply is posted only after the store of that
\* chunk in the cache has completed successfully, and at most one ACK is
\* posted per CHUNK_READY; the worker is terminated only on
\* PROCESSING_COMPLETE.
AckAfterStore ==
    /\ [](\A k \in Chunks :
            /\ preload.acks[k] > 0 => k \in preload.stored
            /\ preload.acks[k] <= (IF k \in preload.received THEN 1 ELSE 0))
    /\ [][ackingStep /\ terminatingStep]_preload

\* every chunk of a point cloud of MaxChunks chunks was stored and acknowledged
\* once, and PROCESSING_COMPLETE has terminated the worker
AllChunksAcked ==
    /\ preload.chunkCount = MaxChunks
    /\ \A k \in Chunks : k \in preload.stored /\ preload.acks[k] = 1
    /\ preload.worker = "terminated"
    /\ preload.preloadComplete

\* C38: preload termination: every preload started by startPreloading
\* eventually leaves the in-progress state (preloadInProgress = false)
\* whether it ends by cache hit, by completion of all chunks, or by any
\* failure (backend error, worker error, or failure to store a chunk);
\* preloadInProgress and preloadComplete are never both true.
PreloadTermination ==
    /\ preload.preloadInProgress ~> ~preload.preloadInProgress
    /\ [](~(preload.preloadInProgress /\ preload.preloadComplete))

\* as long as no store of a chunk has failed, the preload leaves the
\* in-progress state
TerminationWhileStoresSucceed ==
    (preload.preloadInProgress /\ preload.rejected = {})
      ~> (~preload.preloadInProgress \/ preload.rejected # {})

============================================================================
